---------------------------- MODULE Spec2Model ----------------------------
(***************************************************************************)
(* Model of the caching / invalidation layer:                              *)
(*   - LRUCache, MemoryManager   (src/services/memory/MemoryManager.ts)    *)
(*   - CodeIndexCache            (src/services/tree-sitter/cache/...)      *)
(* Each component has its own variables and its own specification; the     *)
(* variables of the other components are left unchanged by its actions.    *)
(***************************************************************************)
EXTENDS Integers, Sequences, FiniteSets, TLC

VARIABLES
    lru,        \* the LRUCache object: cache (Map, in insertion order), maxSize,
                \* maxEntries, currentSize, totalRequests, cacheHits
    now,        \* Date.now(), non-decreasing
    hung,       \* TRUE once a synchronous loop never returns (event loop stuck)
    lastOp,     \* the operation completed by the last step, with its result
    recency,    \* history: keys in order of their last successful use (oldest first)
    config,     \* MemoryManager.config
    disk,       \* the file system seen by MemoryManager: path -> file or NoFile
    reads,      \* in-flight getFileContent calls (suspended at an await)
    index,      \* CodeIndexCache: cache (definitions, lastIndexedAt, version),
                \* hitCount, missCount
    files,      \* the source files seen by CodeIndexCache: path -> [exists, mtime, content]
    calls,      \* in-flight getCachedDefinitions / cacheDefinitions calls
    window,     \* history: consecutive undisturbed getCachedDefinitions calls
    rewritten,  \* history: path -> "none", "cached" (cacheDefinitions completed) or
                \* "rewritten" (then rewritten with new content and a later mtime)
    monitor,    \* the MemoryPressureMonitor object: config, cleanupCallbacks,
                \* monitoring, intervalId
    timers,     \* the interval timers of the event loop that are armed
    manager,    \* MemoryManager: cleanupCount, lazyLoadedFiles, the loads started
                \* by preloadFiles that are suspended at an await
    running,    \* work started by cleanup callbacks and not finished yet
    glines,     \* a getFileLines call: file, range, loop variables
    service,    \* CodeIndexingService around the CodeIndexCache: the FileWatcher
                \* (isActive, watchers), the value kept in workspaceState, and a
                \* cleanupStaleEntries call in flight
    hist,       \* history: the LRUCache.get / set calls made since the cache
                \* object was constructed
    reader      \* a MemoryOptimizedFileReader.readFiles call: its Semaphore
                \* and the tasks of the batch in flight

lruVars == <<lru, now, hung, lastOp, recency>>
mmVars  == <<config, disk, reads>>
idxVars == <<index, files, calls, window, rewritten>>
monVars == <<monitor, timers, manager, running>>
svcVars == <<service, hist, reader>>
extVars == <<monVars, glines, svcVars>>
vars    == <<lru, now, hung, lastOp, recency, config, disk, reads,
             index, files, calls, window, rewritten,
             monitor, timers, manager, running, glines, service, hist, reader>>

-----------------------------------------------------------------------------
(* Bounds *)

MaxTime     == 1    \* Date.now() takes the values 0..MaxTime
MaxRequests == 2    \* at most this many LRUCache.get calls per cache object
MaxLookups  == 2    \* at most this many getCachedDefinitions calls per index
MaxCallbacks == 3   \* at most this many cleanup callbacks are registered
MaxCleanups == 2    \* at most this many ticks find memory pressure
MaxPreloads == 2    \* at most this many preloadFiles calls
MaxChars    == 4    \* a file read by getFileLines holds at most this many characters
MaxLine     == 3    \* getFileLines is asked for lines 0..MaxLine
ChunkSize   == 2    \* bytes per handle.read: `chunkSize` (64 * 1024 in the source),
                    \* scaled down so that the bounded files span several chunks

Keys == {"a", "b", "c"}     \* cache keys = file paths

-----------------------------------------------------------------------------
(* Contents: a string is modelled by an identifying text and its UTF-8 byte *)
(* length; trunc marks the 1MB window + truncation notice.                  *)

Content(text, bytes) == [text |-> text, bytes |-> bytes, trunc |-> FALSE]

NullContent == [text |-> "<null>", bytes |-> 0, trunc |-> FALSE]

ByteLength(content) == content.bytes

\* contents offered to LRUCache.set in the cache-level specification
PutContents == {Content("x", 100), Content("z", 60), Content("y", 950)}

-----------------------------------------------------------------------------
(* LRUCache *)

NewLRUCache(maxSize, maxEntries) ==
    [cache |-> <<>>, maxSize |-> maxSize, maxEntries |-> maxEntries,
     currentSize |-> 0, totalRequests |-> 0, cacheHits |-> 0]

\* Map lookup: index of key in the Map's iteration order, 0 when absent
IndexOf(cache, key) ==
    IF \E i \in 1..Len(cache) : cache[i].key = key
    THEN CHOOSE i \in 1..Len(cache) : cache[i].key = key
    ELSE 0

MapHas(cache, key) == IndexOf(cache, key) # 0

\* Map.delete: removes the entry, the others keep their order
MapDelete(cache, key) ==
    LET i == IndexOf(cache, key)
    IN  IF i = 0 THEN cache
        ELSE SubSeq(cache, 1, i - 1) \o SubSeq(cache, i + 1, Len(cache))

KeySet(cache) == {cache[i].key : i \in 1..Len(cache)}

RECURSIVE SumSizes(_)
SumSizes(cache) ==
    IF cache = <<>> THEN 0 ELSE Head(cache).size + SumSizes(Tail(cache))

\* a get that updates the entry where it is, without delete and set
LRUGetNoMove(c, key, t) ==
    LET i == IndexOf(c.cache, key)
    IN  IF i # 0
        THEN LET entry == [c.cache[i] EXCEPT !.lastAccessed = t,
                                             !.accessCount = @ + 1]
             IN  [lru |-> [c EXCEPT !.totalRequests = @ + 1,
                                    !.cache = [@ EXCEPT ![i] = entry],
                                    !.cacheHits = @ + 1],
                  hit |-> TRUE, out |-> entry.content]
        ELSE [lru |-> [c EXCEPT !.totalRequests = @ + 1],
              hit |-> FALSE, out |-> NullContent]

\* LRUCache.get
LRUGet(c, key, t) ==
    LET i == IndexOf(c.cache, key)
    IN  IF i # 0
        THEN LET entry == [c.cache[i] EXCEPT !.lastAccessed = t,
                                             !.accessCount = @ + 1]
             IN  [lru |-> [c EXCEPT !.totalRequests = @ + 1,
                                    !.cache = Append(MapDelete(c.cache, key), entry),
                                    !.cacheHits = @ + 1],
                  hit |-> TRUE, out |-> entry.content]
        ELSE [lru |-> [c EXCEPT !.totalRequests = @ + 1],
              hit |-> FALSE, out |-> NullContent]

\* the scan of evictLRU: i is the next index, lruIdx = 0 stands for
\* lruKey = null / lruTime = Infinity
RECURSIVE ScanLRU(_, _, _)
ScanLRUWrongCompare(cache, i, lruIdx) ==
    IF i > Len(cache) THEN lruIdx
    ELSE IF lruIdx = 0 \/ cache[i].lastAccessed >= cache[lruIdx].lastAccessed
         THEN ScanLRU(cache, i + 1, i)
         ELSE ScanLRU(cache, i + 1, lruIdx)

\* `<=` for `<`: of the entries that share the least lastAccessed, the last
ScanLRUNewestOfTies(cache, i, lruIdx) ==
    IF i > Len(cache) THEN lruIdx
    ELSE IF lruIdx = 0 \/ cache[i].lastAccessed <= cache[lruIdx].lastAccessed
         THEN ScanLRU(cache, i + 1, i)
         ELSE ScanLRU(cache, i + 1, lruIdx)

ScanLRU(cache, i, lruIdx) ==
    IF i > Len(cache) THEN lruIdx
    ELSE IF lruIdx = 0 \/ cache[i].lastAccessed < cache[lruIdx].lastAccessed
         THEN ScanLRU(cache, i + 1, i)
         ELSE ScanLRU(cache, i + 1, lruIdx)

\* `if (lruKey)`: the empty string is falsy
Truthy(key) == key # ""

\* LRUCache.evictLRU
EvictLRU(c) ==
    IF Len(c.cache) = 0 THEN c
    ELSE LET i == ScanLRU(c.cache, 1, 0)
         IN  IF i # 0 /\ Truthy(c.cache[i].key)
             THEN [c EXCEPT !.currentSize = @ - c.cache[i].size,
                            !.cache = MapDelete(c.cache, c.cache[i].key)]
             ELSE c

\* the `while` of LRUCache.set: evicts until there is room; hung when an
\* iteration changes nothing (the loop then never ends)
RECURSIVE MakeRoom(_, _)
MakeRoom(c, size) ==
    IF c.currentSize + size > c.maxSize \/ Len(c.cache) >= c.maxEntries
    THEN LET d == EvictLRU(c)
         IN  IF d = c THEN [lru |-> c, hung |-> TRUE] ELSE MakeRoom(d, size)
    ELSE [lru |-> c, hung |-> FALSE]

\* `size > this.maxSize * 0.1`, on integers
TooLargeWholeCache(c, size) == size > c.maxSize

TooLarge(c, size) == size * 10 > c.maxSize

\* lines 91-96 of LRUCache.set: an existing entry is removed first
RemoveExistingKeepSize(c, key) ==
    IF MapHas(c.cache, key)
    THEN [c EXCEPT !.cache = MapDelete(c.cache, key)]
    ELSE c

RemoveExisting(c, key) ==
    IF MapHas(c.cache, key)
    THEN [c EXCEPT !.currentSize = @ - c.cache[IndexOf(c.cache, key)].size,
                   !.cache = MapDelete(c.cache, key)]
    ELSE c

\* LRUCache.set
LRUSetRemoveFirst(c, key, content, t) ==
    LET size == ByteLength(content)
        c1   == RemoveExisting(c, key)
    IN  IF TooLarge(c, size)
        THEN [lru |-> c1, ok |-> FALSE, hung |-> FALSE]
        ELSE LET r == MakeRoom(c1, size)
                 entry == [key |-> key, content |-> content, size |-> size,
                           lastAccessed |-> t, accessCount |-> 1]
             IN  IF r.hung
                 THEN [lru |-> r.lru, ok |-> FALSE, hung |-> TRUE]
                 ELSE [lru |-> [r.lru EXCEPT !.cache = Append(@, entry),
                                             !.currentSize = @ + size],
                       ok |-> TRUE, hung |-> FALSE]

\* a set that keeps the content of an entry that exists under the key
LRUSetKeepsContent(c, key, content, t) ==
    LET size == ByteLength(content)
        old  == IF MapHas(c.cache, key) THEN c.cache[IndexOf(c.cache, key)].content
                ELSE content
    IN  IF TooLarge(c, size)
        THEN [lru |-> c, ok |-> FALSE, hung |-> FALSE]
        ELSE LET r == MakeRoom(RemoveExisting(c, key), ByteLength(old))
                 entry == [key |-> key, content |-> old, size |-> ByteLength(old),
                           lastAccessed |-> t, accessCount |-> 1]
             IN  IF r.hung
                 THEN [lru |-> r.lru, ok |-> FALSE, hung |-> TRUE]
                 ELSE [lru |-> [r.lru EXCEPT !.cache = Append(@, entry),
                                             !.currentSize = @ + ByteLength(old)],
                       ok |-> TRUE, hung |-> FALSE]

LRUSet(c, key, content, t) ==
    LET size == ByteLength(content)
    IN  IF TooLarge(c, size)
        THEN [lru |-> c, ok |-> FALSE, hung |-> FALSE]
        ELSE LET r == MakeRoom(RemoveExisting(c, key), size)
                 entry == [key |-> key, content |-> content, size |-> size,
                           lastAccessed |-> t, accessCount |-> 1]
             IN  IF r.hung
                 THEN [lru |-> r.lru, ok |-> FALSE, hung |-> TRUE]
                 ELSE [lru |-> [r.lru EXCEPT !.cache = Append(@, entry),
                                             !.currentSize = @ + size],
                       ok |-> TRUE, hung |-> FALSE]

\* LRUCache.clear
LRUClear(c) == [c EXCEPT !.cache = <<>>, !.currentSize = 0]

-----------------------------------------------------------------------------
(* MemoryManager configuration *)

MB == 1048576

DEFAULT_MEMORY_CONFIG ==
    [maxCacheSize |-> 512 * MB, maxFileSize |-> 10 * MB, streamThreshold |-> MB,
     cleanupThreshold |-> 80, maxCacheEntries |-> 1000, memoryCheckInterval |-> 30000]

\* the size limits a cache-level test constructs the cache with
CacheLimits == {[maxCacheSize |-> 1000, maxCacheEntries |-> 2],
                [maxCacheSize |-> 1000, maxCacheEntries |-> 1],
                [maxCacheSize |-> 600,  maxCacheEntries |-> 2]}

NoFile == [exists |-> FALSE, text |-> "", bytes |-> 0]

-----------------------------------------------------------------------------
(* CodeIndexCache: state and pure helpers *)

SourcePaths  == {"f.ts"}
Readers      == {"r"}       \* callers of getCachedDefinitions
Writers      == {"w"}       \* callers that parse a file and call cacheDefinitions
IndexCallers == Readers \cup Writers

\* file contents as UTF-16 code units: "Aa", "BB" (same hash as "Aa"), "C"
SourceContents == {<<65, 97>>, <<66, 66>>, <<67>>}

Source(mtime, content) == [exists |-> TRUE, mtime |-> mtime, content |-> content]

NoSource == [exists |-> FALSE, mtime |-> 0, content |-> <<>>]

\* the caller's parse of a file: the definitions are determined by the content
Parse(content) == [from |-> content]

NoValue == [from |-> <<0>>]     \* null

CACHE_VERSION == "1.0.0"

NoEntry == [present |-> FALSE]

\* CodeIndexCache constructor / initializeCache
NewIndex ==
    [definitions |-> [p \in SourcePaths |-> NoEntry], lastIndexedAt |-> 0,
     version |-> CACHE_VERSION, hitCount |-> 0, missCount |-> 0]

\* one round of generateHash's loop on a 32-bit value kept as two 16-bit
\* halves: h := ((h << 5) - h + char) & 0xFFFFFFFF
HashStep(h, char) ==
    LET lo == 31 * h.lo + char
        hi == 31 * h.hi + (lo \div 65536)
    IN  [hi |-> hi % 65536, lo |-> lo % 65536]

RECURSIVE HashLoop(_, _)
HashLoop(h, content) ==
    IF content = <<>> THEN h ELSE HashLoop(HashStep(h, Head(content)), Tail(content))

\* the signed 32-bit integer `hash & hash` leaves
ToInt32(h) ==
    IF h.hi >= 32768 THEN (h.hi - 65536) * 65536 + h.lo ELSE h.hi * 65536 + h.lo

RECURSIVE Base36(_)
Base36(n) == IF n < 36 THEN <<n>> ELSE Append(Base36(n \div 36), n % 36)

\* Number.prototype.toString(36): sign and digits
ToString36(n) ==
    IF n = -2147483647 - 1
    THEN [neg |-> TRUE, digits |-> <<35, 18, 20, 0, 35, 20>>]
    ELSE IF n < 0 THEN [neg |-> TRUE, digits |-> Base36(0 - n)]
         ELSE [neg |-> FALSE, digits |-> Base36(n)]

\* CodeIndexCache.generateHash
GenerateHash(content) == ToString36(ToInt32(HashLoop([hi |-> 0, lo |-> 0], content)))

\* `delete this.cache.definitions[path]`
DeleteDefinition(ix, path) == [ix EXCEPT !.definitions[path] = NoEntry]

\* an exit that forgets the counter
CountMissDropped(ix) == ix

CountMissAsHit(ix) == [ix EXCEPT !.hitCount = @ + 1]

CountMiss(ix) == [ix EXCEPT !.missCount = @ + 1]

CountHit(ix) == [ix EXCEPT !.hitCount = @ + 1]

\* a completed index operation: cached is the entry the call looked at,
\* sawMtime the mtime its stat returned
IdxOp(op, key, hit, out, cached, sawMtime) ==
    [op |-> op, key |-> key, hit |-> hit, out |-> out, cached |-> cached,
     sawMtime |-> sawMtime, afterRewrite |-> FALSE]

NoOp == [op |-> "-"]

-----------------------------------------------------------------------------
(* MemoryPressureMonitor and the MemoryManager fields around it: state *)

\* a cleanup callback is named by what it does when called:
\*   "performCleanup"  () => this.performCleanup(), registered by the constructor
\*   "returns"         returns normally, touches nothing of the manager
\*   "throws"          throws an error
\*   "starts"          starts asynchronous work and returns before it is done
CallbackKinds == {"returns", "throws", "starts"}

\* new MemoryPressureMonitor(config): the monitor keeps the config object it
\* was constructed with; intervalId 0 stands for null
NewMonitor(cfg) ==
    [config |-> cfg, cleanupCallbacks |-> <<>>, monitoring |-> FALSE, intervalId |-> 0]

\* MemoryPressureMonitor.addCleanupCallback
AddCallback(m, callback) ==
    [m EXCEPT !.cleanupCallbacks = Append(@, callback)]

\* the fields the MemoryManager constructor sets besides config and lruCache;
\* loads are the getFileContent calls of preloadFiles still in flight,
\* the other fields are history: cleared, the paths a cleanup removed from
\* lazyLoadedFiles and that have not been warmed since; stale, the number of
\* callbacks that were registered when dispose last ran; fired, the number of
\* ticks that found memory pressure; preloads, the number of preloadFiles calls;
\* preloading, the preloadFiles calls that have not returned yet
NewManager ==
    [cleanupCount |-> 0, lazyLoadedFiles |-> {}, loads |-> <<>>,
     cleared |-> {}, stale |-> 0, fired |-> 0, preloads |-> 0, preloading |-> <<>>]

\* the monitor as the MemoryManager constructor leaves it (lines 240-243)
ConstructedMonitor(cfg) == AddCallback(NewMonitor(cfg), "performCleanup")

NoLines == [pc |-> "idle"]

\* workspaceState holds no value under CACHE_KEY
NoSnapshot == [present |-> FALSE]

NoSweep == [pc |-> "idle"]

\* new CodeIndexingService(context): a FileWatcher that is not active and has
\* no watchers; nothing persisted yet, no sweep running, not initialized;
\* loads is history: the number of loadCache calls initialize has made
NewService ==
    [isActive |-> FALSE, watchers |-> 0, store |-> NoSnapshot, sweep |-> NoSweep,
     load |-> [pc |-> "idle"], isInitialized |-> FALSE, loads |-> 0]

\* no readFiles call in flight
NoReader == [pc |-> "idle"]

\* no get and no set call yet; filled counts the set calls that built the
\* start state
NoHist == [gets |-> 0, hits |-> 0, puts |-> 0, filled |-> 0]

\* the indexing service untouched, the cache object fresh
InitQuiet ==
    /\ service = NewService
    /\ hist = NoHist
    /\ reader = NoReader

\* the pressure monitor of a manager nobody has started
InitPressure ==
    /\ monitor = ConstructedMonitor(DEFAULT_MEMORY_CONFIG)
    /\ timers = {}
    /\ manager = NewManager
    /\ running = {}

\* no monitoring and no getFileLines call
InitRest ==
    /\ InitPressure
    /\ glines = NoLines
    /\ InitQuiet

-----------------------------------------------------------------------------
(* History *)

\* key becomes the most recently used one
Touch(seq, key) == Append(SelectSeq(seq, LAMBDA k : k # key), key)

Op(op, key, arg, ok, out) ==
    [op |-> op, key |-> key, arg |-> arg, ok |-> ok, out |-> out]

-----------------------------------------------------------------------------
(* Cache-level specification: the operations of one LRUCache object *)

\* the code-index cache as constructed, with no source file and no call
InitIdle ==
    /\ index = NewIndex
    /\ files = [p \in SourcePaths |-> NoSource]
    /\ calls = [s \in IndexCallers |-> [pc |-> "idle"]]
    /\ window = [phase |-> 0]
    /\ rewritten = [p \in SourcePaths |-> "none"]

InitMM ==
    /\ config = DEFAULT_MEMORY_CONFIG
    /\ disk = [p \in Keys |-> NoFile]
    /\ reads = [s \in {"c1", "c2"} |-> [pc |-> "idle"]]

InitLRU ==
    /\ \E l \in CacheLimits : lru = NewLRUCache(l.maxCacheSize, l.maxCacheEntries)
    /\ now = 0
    /\ hung = FALSE
    /\ lastOp = Op("new", "", NullContent, TRUE, NullContent)
    /\ recency = <<>>
    /\ InitMM
    /\ InitIdle
    /\ InitRest

Tick ==
    /\ ~hung
    /\ now < MaxTime
    /\ now' = now + 1
    /\ lastOp' = Op("tick", "", NullContent, TRUE, NullContent)
    /\ UNCHANGED <<lru, hung, recency>>

CacheGet(key) ==
    /\ ~hung
    /\ lru.totalRequests < MaxRequests
    /\ LET r == LRUGet(lru, key, now)
       IN  /\ lru' = r.lru
           /\ lastOp' = Op("get", key, NullContent, r.hit, r.out)
           /\ recency' = IF r.hit THEN Touch(recency, key) ELSE recency
    /\ UNCHANGED <<now, hung>>

CachePut(key, content) ==
    /\ ~hung
    /\ LET r == LRUSet(lru, key, content, now)
       IN  /\ lru' = r.lru
           /\ hung' = r.hung
           /\ lastOp' = Op("put", key, content, r.ok, NullContent)
           /\ recency' = IF r.ok THEN Touch(recency, key) ELSE recency
    /\ UNCHANGED now

CacheClear ==
    /\ ~hung
    /\ lru' = LRUClear(lru)
    /\ recency' = <<>>
    /\ lastOp' = Op("clear", "", NullContent, TRUE, NullContent)
    /\ UNCHANGED <<now, hung>>

\* updateConfig with new size limits: `this.lruCache = new LRUCache(...)`
CacheRecreate(l) ==
    /\ ~hung
    /\ lru' = NewLRUCache(l.maxCacheSize, l.maxCacheEntries)
    /\ recency' = <<>>
    /\ lastOp' = Op("recreate", "", NullContent, TRUE, NullContent)
    /\ UNCHANGED <<now, hung>>

NextLRU ==
    \/ Tick /\ UNCHANGED <<mmVars, idxVars, extVars>>
    \/ \E k \in Keys : CacheGet(k) /\ UNCHANGED <<mmVars, idxVars, extVars>>
    \/ \E k \in Keys, c \in PutContents : CachePut(k, c) /\ UNCHANGED <<mmVars, idxVars, extVars>>
    \/ CacheClear /\ UNCHANGED <<mmVars, idxVars, extVars>>
    \/ \E l \in CacheLimits : CacheRecreate(l) /\ UNCHANGED <<mmVars, idxVars, extVars>>

SpecLRU == InitLRU /\ [][NextLRU]_vars

-----------------------------------------------------------------------------
(* MemoryManager.getFileContent over a changing file system *)

Paths   == {"a"}            \* the path the manager is asked for
Callers == {"c1", "c2"}     \* concurrent getFileContent calls

File(text, bytes) == [exists |-> TRUE, text |-> text, bytes |-> bytes]

\* what an external writer may leave at a path
FileVersions == {File("v1", 1000), File("v2", 1000), File("v3", 2 * MB),
                 File("v4", 11 * MB), File("v5", 60 * MB)}

\* the partial configurations passed to updateConfig
ConfigUpdates == {[maxCacheEntries |-> 1], [streamThreshold |-> 4 * MB]}

StreamCeiling == 50 * MB    \* `fileSize > 50 * 1024 * 1024`
StreamWindow  == MB         \* `new Uint8Array(1024 * 1024)`

Min(x, y) == IF x < y THEN x ELSE y

\* Math.round(fileSize / 1024 / 1024)
RoundMB(fileSize) == (2 * fileSize + MB) \div (2 * MB)

RECURSIVE Digits(_)
Digits(n) == IF n < 10 THEN 1 ELSE 1 + Digits(n \div 10)

\* length of the three notice lines appended to the window
NoticeLength(fileSize) == 54 + (16 + Digits(RoundMB(fileSize))) + 44

\* the strategy chosen after stat (getFileContent line 282, streamFileContent line 302)
Route(cfg, fileSize) ==
    IF fileSize > cfg.streamThreshold
    THEN IF fileSize > StreamCeiling THEN "window" ELSE "stream"
    ELSE "full"

\* the string read from file f by the chosen strategy; fileSize is the size stat saw
ReadContent(route, f, fileSize) ==
    IF route = "window"
    THEN [text |-> f.text, bytes |-> Min(StreamWindow, f.bytes) + NoticeLength(fileSize),
          trunc |-> TRUE]
    ELSE Content(f.text, f.bytes)

\* `if (fileSize <= this.config.maxFileSize)`
ShouldCache(cfg, fileSize) == fileSize <= cfg.maxFileSize

Idle == [pc |-> "idle"]

\* a completed call: via is "cache" or the strategy that produced the result,
\* inserted tells whether LRUCache.set accepted it, statSize is the size stat saw
MMOp(op, key, ok, out, via, inserted, statSize) ==
    [op |-> op, key |-> key, arg |-> NullContent, ok |-> ok, out |-> out,
     via |-> via, inserted |-> inserted, statSize |-> statSize]

\* a step that completes no getFileContent call
Pending(op, key) == MMOp("-", "", TRUE, NullContent, "", FALSE, 0)

InitReads == reads = [s \in Callers |-> Idle]

\* getFileContent up to its first await: the cache lookup (lines 268-277)
GfcCall(s, path, forceReload) ==
    /\ ~hung
    /\ reads[s].pc = "idle"
    /\ IF forceReload
       THEN /\ reads' = [reads EXCEPT ![s] = [pc |-> "stat", path |-> path]]
            /\ lastOp' = Pending("call", path)
            /\ UNCHANGED lru
       ELSE /\ lru.totalRequests < MaxRequests
            /\ LET r == LRUGet(lru, path, now)
               IN  /\ lru' = r.lru
                   /\ IF r.hit
                      THEN /\ lastOp' = MMOp("getFileContent", path, TRUE, r.out,
                                             "cache", FALSE, 0)
                           /\ UNCHANGED reads
                      ELSE /\ lastOp' = Pending("call", path)
                           /\ reads' = [reads EXCEPT ![s] = [pc |-> "stat", path |-> path]]
    /\ UNCHANGED <<now, hung, recency, config, disk>>

\* fs.stat resolves (lines 277-288): an error propagates, else the strategy is chosen
GfcStat(s) ==
    /\ ~hung
    /\ reads[s].pc = "stat"
    /\ LET path == reads[s].path
           f    == disk[path]
       IN  IF ~f.exists
           THEN /\ reads' = [reads EXCEPT ![s] = Idle]
                /\ lastOp' = MMOp("getFileContent", path, FALSE, NullContent,
                                  "stat", FALSE, 0)
           ELSE /\ reads' = [reads EXCEPT ![s] =
                                [pc |-> "read", path |-> path, fileSize |-> f.bytes,
                                 route |-> Route(config, f.bytes)]]
                /\ lastOp' = Pending("stat", path)
    /\ UNCHANGED <<lru, now, hung, recency, config, disk>>

\* the read resolves (lines 284-295, 301-324): cache if appropriate, return
GfcRead(s) ==
    /\ ~hung
    /\ reads[s].pc = "read"
    /\ LET call == reads[s]
           f    == disk[call.path]
       IN  IF ~f.exists
           THEN /\ lastOp' = MMOp("getFileContent", call.path, FALSE, NullContent,
                                  call.route, FALSE, call.fileSize)
                /\ UNCHANGED <<lru, hung>>
           ELSE LET content == ReadContent(call.route, f, call.fileSize)
                IN  IF ShouldCache(config, call.fileSize)
                    THEN LET r == LRUSet(lru, call.path, content, now)
                         IN  /\ lru' = r.lru
                             /\ hung' = r.hung
                             /\ lastOp' = MMOp("getFileContent", call.path, TRUE, content,
                                               call.route, r.ok, call.fileSize)
                    ELSE /\ lastOp' = MMOp("getFileContent", call.path, TRUE, content,
                                           call.route, FALSE, call.fileSize)
                         /\ UNCHANGED <<lru, hung>>
    /\ reads' = [reads EXCEPT ![s] = Idle]
    /\ UNCHANGED <<now, recency, config, disk>>

\* an external process writes or deletes a file
DiskWrite(path, f) ==
    /\ ~hung
    /\ disk[path] # f
    /\ disk' = [disk EXCEPT ![path] = f]
    /\ lastOp' = Pending("write", path)
    /\ UNCHANGED <<lru, now, hung, recency, config, reads>>

DiskDelete(path) ==
    /\ ~hung
    /\ disk[path].exists
    /\ disk' = [disk EXCEPT ![path] = NoFile]
    /\ lastOp' = Pending("delete", path)
    /\ UNCHANGED <<lru, now, hung, recency, config, reads>>

\* `{ ...this.config, ...newConfig }`
MergeConfig(cfg, newConfig) ==
    [k \in DOMAIN cfg |-> IF k \in DOMAIN newConfig THEN newConfig[k] ELSE cfg[k]]

\* `newConfig.maxCacheSize || newConfig.maxCacheEntries`: undefined and 0 are falsy
SizeLimitsChanged(newConfig) ==
    \/ "maxCacheSize" \in DOMAIN newConfig /\ newConfig.maxCacheSize # 0
    \/ "maxCacheEntries" \in DOMAIN newConfig /\ newConfig.maxCacheEntries # 0

\* MemoryManager.updateConfig
UpdateConfig(newConfig) ==
    /\ ~hung
    /\ config' = MergeConfig(config, newConfig)
    /\ config' # config
    /\ lru' = IF SizeLimitsChanged(newConfig)
              THEN NewLRUCache(config'.maxCacheSize, config'.maxCacheEntries)
              ELSE lru
    /\ lastOp' = Pending("updateConfig", "")
    /\ UNCHANGED <<now, hung, recency, disk, reads>>

InitManager ==
    /\ config = DEFAULT_MEMORY_CONFIG
    /\ lru = NewLRUCache(config.maxCacheSize, config.maxCacheEntries)
    /\ disk = [p \in Keys |-> NoFile]
    /\ InitReads
    /\ now = 0
    /\ hung = FALSE
    /\ lastOp = Pending("new", "")
    /\ recency = <<>>
    /\ InitIdle
    /\ InitRest

NextManager ==
    \/ \E s \in Callers, p \in Paths, force \in BOOLEAN :
          GfcCall(s, p, force) /\ UNCHANGED <<idxVars, extVars>>
    \/ \E s \in Callers : GfcStat(s) /\ UNCHANGED <<idxVars, extVars>>
    \/ \E s \in Callers : GfcRead(s) /\ UNCHANGED <<idxVars, extVars>>
    \/ \E p \in Paths, f \in FileVersions : DiskWrite(p, f) /\ UNCHANGED <<idxVars, extVars>>
    \/ \E p \in Paths : DiskDelete(p) /\ UNCHANGED <<idxVars, extVars>>
    \/ \E n \in ConfigUpdates : UpdateConfig(n) /\ UNCHANGED <<idxVars, extVars>>

SpecManager == InitManager /\ [][NextManager]_vars

\* what getFileContent returns from an empty cache when nothing interleaves
ColdResult(cfg, f) ==
    IF ~f.exists
    THEN [ok |-> FALSE, out |-> NullContent]
    ELSE [ok |-> TRUE, out |-> ReadContent(Route(cfg, f.bytes), f, f.bytes)]

-----------------------------------------------------------------------------
(* CodeIndexCache: operations, one action per continuation *)

AllIdle == \A s \in IndexCallers : calls[s].pc = "idle"

NoWindow == [phase |-> 0]

\* a getCachedDefinitions call starts: it opens a window when nothing else is
\* in flight, as second call when the previous one for the path just ended
WindowOnStart(path) ==
    IF ~AllIdle THEN NoWindow
    ELSE IF window.phase = 2 /\ window.path = path
         THEN [phase |-> 3, path |-> path, out1 |-> window.out, after1 |-> index]
         ELSE [phase |-> 1, path |-> path]

\* the call of the window returns out
WindowOnDone(w, out) ==
    IF w.phase = 1
    THEN [phase |-> 2, path |-> w.path, out |-> out, hit |-> out # NoValue,
          paired |-> FALSE]
    ELSE IF w.phase = 3
         THEN [phase |-> 2, path |-> w.path, out |-> out, hit |-> out # NoValue,
               paired |-> TRUE, out1 |-> w.out1, after1 |-> w.after1]
         ELSE NoWindow

\* `stats.mtime.getTime() !== cached.lastModified` (line 107), negated
MtimeMatchesAlways(f, cached) == TRUE

MtimeMatches(f, cached) == f.mtime = cached.lastModified

\* `currentHash !== cached.hash` (line 116), negated
HashMatchesAlways(content, cached) == TRUE

HashMatches(content, cached) == GenerateHash(content) = cached.hash

\* the three miss exits and the catch block: delete, count, return null
GetMiss(s, sawMtime) ==
    LET call == calls[s]
    IN  /\ index' = CountMiss(DeleteDefinition(index, call.path))
        /\ calls' = [calls EXCEPT ![s] = [pc |-> "idle"]]
        /\ lastOp' = [IdxOp("getCachedDefinitions", call.path, FALSE, NoValue,
                            call.cached, sawMtime)
                      EXCEPT !.afterRewrite = call.afterRewrite]
        /\ window' = WindowOnDone(window, NoValue)

\* getCachedDefinitions up to its first await (lines 88-98)
GetStart(s, path) ==
    /\ calls[s].pc = "idle"
    /\ index.hitCount + index.missCount < MaxLookups
    /\ LET cached == index.definitions[path]
           w      == WindowOnStart(path)
       IN  IF ~cached.present
           THEN /\ index' = CountMiss(index)
                /\ lastOp' = [IdxOp("getCachedDefinitions", path, FALSE, NoValue,
                                    NoEntry, 0)
                              EXCEPT !.afterRewrite = (rewritten[path] = "rewritten")]
                /\ window' = WindowOnDone(w, NoValue)
                /\ UNCHANGED calls
           ELSE /\ calls' = [calls EXCEPT ![s] =
                                [pc |-> "exists", path |-> path, cached |-> cached,
                                 afterRewrite |-> (rewritten[path] = "rewritten")]]
                /\ lastOp' = NoOp
                /\ window' = w
                /\ UNCHANGED index
    /\ UNCHANGED <<files, rewritten>>

\* fileExistsAtPath resolves (lines 98-103)
GetExists(s) ==
    /\ calls[s].pc = "exists"
    /\ IF ~files[calls[s].path].exists
       THEN GetMiss(s, 0)
       ELSE /\ calls' = [calls EXCEPT ![s].pc = "stat"]
            /\ lastOp' = NoOp
            /\ UNCHANGED <<index, window>>
    /\ UNCHANGED <<files, rewritten>>

\* fs.stat resolves (lines 106-111); a failing stat lands in the catch block
GetStat(s) ==
    /\ calls[s].pc = "stat"
    /\ LET f == files[calls[s].path]
       IN  IF ~f.exists
           THEN GetMiss(s, 0)
           ELSE IF ~MtimeMatches(f, calls[s].cached)
                THEN GetMiss(s, f.mtime)
                ELSE /\ calls' = [calls EXCEPT ![s] =
                                    [pc |-> "read", path |-> calls[s].path,
                                     cached |-> calls[s].cached,
                                     afterRewrite |-> calls[s].afterRewrite,
                                     sawMtime |-> f.mtime]]
                     /\ lastOp' = NoOp
                     /\ UNCHANGED <<index, window>>
    /\ UNCHANGED <<files, rewritten>>

\* fs.readFile resolves (lines 114-123)
GetRead(s) ==
    /\ calls[s].pc = "read"
    /\ LET call == calls[s]
           f    == files[call.path]
       IN  IF ~f.exists
           THEN GetMiss(s, call.sawMtime)
           ELSE IF ~HashMatches(f.content, call.cached)
                THEN GetMiss(s, call.sawMtime)
                ELSE /\ index' = CountHit(index)
                     /\ calls' = [calls EXCEPT ![s] = [pc |-> "idle"]]
                     /\ lastOp' = [IdxOp("getCachedDefinitions", call.path, TRUE,
                                         call.cached.definitions, call.cached,
                                         call.sawMtime)
                                   EXCEPT !.afterRewrite = call.afterRewrite]
                     /\ window' = WindowOnDone(window, call.cached.definitions)
    /\ UNCHANGED <<files, rewritten>>

\* the caller parses the file as it is and calls cacheDefinitions (lines 136-138)
CacheStart(s, path) ==
    /\ calls[s].pc = "idle"
    /\ files[path].exists
    /\ calls' = [calls EXCEPT ![s] = [pc |-> "cstat", path |-> path,
                                      definitions |-> Parse(files[path].content)]]
    /\ lastOp' = NoOp
    /\ window' = NoWindow
    /\ UNCHANGED <<index, files, rewritten>>

\* cacheDefinitions returns from its catch block: nothing was stored
CacheFail(s) ==
    /\ calls' = [calls EXCEPT ![s] = [pc |-> "idle"]]
    /\ lastOp' = IdxOp("cacheDefinitions", calls[s].path, FALSE, NoValue,
                        index.definitions[calls[s].path], 0)
    /\ UNCHANGED <<index, rewritten>>

\* fs.stat resolves (line 138)
CacheStat(s) ==
    /\ calls[s].pc = "cstat"
    /\ LET f == files[calls[s].path]
       IN  IF ~f.exists
           THEN CacheFail(s)
           ELSE /\ calls' = [calls EXCEPT ![s] =
                               [pc |-> "cread", path |-> calls[s].path,
                                definitions |-> calls[s].definitions,
                                mtime |-> f.mtime]]
                /\ lastOp' = NoOp
                /\ UNCHANGED <<index, rewritten>>
    /\ window' = NoWindow
    /\ UNCHANGED files

\* an entry that keeps the hash of the entry it replaces
NewEntryKeepsHash(call, content, prior) ==
    [present |-> TRUE, filePath |-> call.path, definitions |-> call.definitions,
     lastModified |-> call.mtime,
     hash |-> IF prior.present THEN prior.hash ELSE GenerateHash(content)]

\* the object literal of lines 141-146; prior is the entry under the path
NewEntry(call, content, prior) ==
    [present |-> TRUE, filePath |-> call.path, definitions |-> call.definitions,
     lastModified |-> call.mtime, hash |-> GenerateHash(content)]

\* fs.readFile resolves (lines 139-147): the entry is replaced wholesale;
\* lastOp keeps the entry that was there before
CacheRead(s) ==
    /\ calls[s].pc = "cread"
    /\ LET call == calls[s]
           f    == files[call.path]
       IN  IF ~f.exists
           THEN CacheFail(s)
           ELSE LET entry == NewEntry(call, f.content, index.definitions[call.path])
                IN  /\ index' = [index EXCEPT !.definitions[call.path] = entry]
                    /\ calls' = [calls EXCEPT ![s] = [pc |-> "idle"]]
                    /\ lastOp' = IdxOp("cacheDefinitions", call.path, TRUE,
                                       call.definitions,
                                       index.definitions[call.path], call.mtime)
                    /\ rewritten' = [rewritten EXCEPT ![call.path] = "cached"]
    /\ window' = NoWindow
    /\ UNCHANGED files

\* CodeIndexCache.invalidateFile, as the watcher's change/delete handlers call it
InvalidateFile(path) ==
    /\ index.definitions[path].present
    /\ index' = DeleteDefinition(index, path)
    /\ lastOp' = NoOp
    /\ window' = NoWindow
    /\ UNCHANGED <<files, calls, rewritten>>

\* an external process rewrites a source file; its mtime becomes the current time
SourceWrite(path, content) ==
    /\ files[path] # Source(now, content)
    /\ files' = [files EXCEPT ![path] = Source(now, content)]
    /\ rewritten' = [rewritten EXCEPT ![path] =
            IF /\ @ = "cached" /\ files[path].exists
               /\ files[path].content # content /\ files[path].mtime # now
            THEN "rewritten" ELSE @]
    /\ lastOp' = NoOp
    /\ window' = NoWindow
    /\ UNCHANGED <<index, calls>>

SourceDelete(path) ==
    /\ files[path].exists
    /\ files' = [files EXCEPT ![path] = NoSource]
    /\ lastOp' = NoOp
    /\ window' = NoWindow
    /\ UNCHANGED <<index, calls, rewritten>>

InitIndex ==
    /\ InitIdle
    /\ InitMM
    /\ lru = NewLRUCache(config.maxCacheSize, config.maxCacheEntries)
    /\ now = 0
    /\ hung = FALSE
    /\ lastOp = NoOp
    /\ recency = <<>>
    /\ InitRest

nonIdx == <<lru, hung, recency, config, disk, reads>>

NextIndex ==
    \/ Tick /\ UNCHANGED <<mmVars, idxVars, extVars>>
    \/ \E s \in Readers, p \in SourcePaths : GetStart(s, p) /\ UNCHANGED <<now, nonIdx, extVars>>
    \/ \E s \in Readers : GetExists(s) /\ UNCHANGED <<now, nonIdx, extVars>>
    \/ \E s \in Readers : GetStat(s) /\ UNCHANGED <<now, nonIdx, extVars>>
    \/ \E s \in Readers : GetRead(s) /\ UNCHANGED <<now, nonIdx, extVars>>
    \/ \E s \in Writers, p \in SourcePaths : CacheStart(s, p) /\ UNCHANGED <<now, nonIdx, extVars>>
    \/ \E s \in Writers : CacheStat(s) /\ UNCHANGED <<now, nonIdx, extVars>>
    \/ \E s \in Writers : CacheRead(s) /\ UNCHANGED <<now, nonIdx, extVars>>
    \/ \E p \in SourcePaths : InvalidateFile(p) /\ UNCHANGED <<now, nonIdx, extVars>>
    \/ \E p \in SourcePaths, c \in SourceContents :
          SourceWrite(p, c) /\ UNCHANGED <<now, nonIdx, extVars>>
    \/ \E p \in SourcePaths : SourceDelete(p) /\ UNCHANGED <<now, nonIdx, extVars>>

SpecIndex == InitIndex /\ [][NextIndex]_vars

-----------------------------------------------------------------------------
(* MemoryPressureMonitor and MemoryManager.performCleanup: operations *)

\* process.memoryUsage() / os.totalmem(): the usagePercent a tick samples
Usages == {70, 80, 90}

\* the partial configurations passed to updateConfig while the monitor runs
PressureUpdates == {[cleanupThreshold |-> 60], [memoryCheckInterval |-> 1000]}

\* setInterval returns a timer distinct from every armed one
NewTimerId(ts) ==
    CHOOSE i \in 1..(Cardinality(ts) + 1) : \A t \in ts : t.id # i

\* lines 174-177: the flag is set and an interval is armed with the interval
\* the monitor's own config holds at that moment
ArmInterval(m, ts) ==
    LET id == NewTimerId(ts)
    IN  [monitor |-> [m EXCEPT !.monitoring = TRUE, !.intervalId = id],
         timers  |-> ts \cup {[id |-> id, interval |-> m.config.memoryCheckInterval]}]

\* MemoryPressureMonitor.startMonitoring
StartMonitoringNoGuard(m, ts) == ArmInterval(m, ts)

StartMonitoring(m, ts) ==
    IF m.monitoring THEN [monitor |-> m, timers |-> ts] ELSE ArmInterval(m, ts)

\* MemoryPressureMonitor.stopMonitoring
StopMonitoring(m, ts) ==
    [monitor |-> [m EXCEPT !.monitoring = FALSE, !.intervalId = 0],
     timers  |-> IF m.intervalId # 0 THEN {t \in ts : t.id # m.intervalId} ELSE ts]

\* `usagePercent > this.config.cleanupThreshold`, on the monitor's config
AboveOrAtThreshold(m, usagePercent) == usagePercent >= m.config.cleanupThreshold

AboveThreshold(m, usagePercent) == usagePercent > m.config.cleanupThreshold

\* LRUCache.getEntriesByFrequency: a stable sort by accessCount
RECURSIVE InsertByCount(_, _)
InsertByCount(sorted, e) ==
    IF sorted = <<>> THEN <<e>>
    ELSE IF e.accessCount < Head(sorted).accessCount
         THEN <<e>> \o sorted
         ELSE <<Head(sorted)>> \o InsertByCount(Tail(sorted), e)

RECURSIVE SortByCount(_, _)
SortByCount(cache, i) ==
    IF i = 0 THEN <<>> ELSE InsertByCount(SortByCount(cache, i - 1), cache[i])

EntriesByFrequency(c) == SortByCount(c.cache, Len(c.cache))

\* `Math.min(entries.length / 4, 100)` and `for (i = 0; i < toRemove; i++)`:
\* the number of iterations is the quotient rounded up
CleanupIterations(n) == Min((n + 3) \div 4, 100)

\* the loop of performCleanup (lines 421-423): its body holds a comment only
RECURSIVE CleanupLoop(_, _, _, _)
CleanupLoop(c, entries, i, toRemove) ==
    IF i < toRemove THEN CleanupLoop(c, entries, i + 1, toRemove) ELSE c

\* MemoryManager.performCleanup
PerformCleanupKeepsWarmed(mgr, c) ==
    [manager |-> [mgr EXCEPT !.cleanupCount = @ + 1,
                             !.cleared = @ \cup mgr.lazyLoadedFiles],
     lru     |-> CleanupLoop(c, EntriesByFrequency(c), 0, CleanupIterations(Len(c.cache)))]

PerformCleanup(mgr, c) ==
    [manager |-> [mgr EXCEPT !.cleanupCount = @ + 1,
                             !.cleared = @ \cup mgr.lazyLoadedFiles,
                             !.lazyLoadedFiles = {}],
     lru     |-> CleanupLoop(c, EntriesByFrequency(c), 0, CleanupIterations(Len(c.cache)))]

\* what a triggerCleanup run carries from one callback to the next
CleanupRun(mgr, c, work) ==
    [manager |-> mgr, lru |-> c, running |-> work, invoked |-> <<>>,
     threw |-> FALSE, caught |-> 0, escaped |-> FALSE]

\* `callback()` for the i-th callback of the tick numbered serial
CallCallback(kind, i, run, serial) ==
    CASE kind = "performCleanup" ->
            LET r == PerformCleanup(run.manager, run.lru)
            IN  [run EXCEPT !.manager = r.manager, !.lru = r.lru]
      [] kind = "returns" -> run
      [] kind = "throws"  -> [run EXCEPT !.threw = TRUE]
      [] kind = "starts"  -> [run EXCEPT !.running = @ \cup {<<serial, i>>}]

\* MemoryPressureMonitor.triggerCleanup: forEach with try / catch around each call
RECURSIVE TriggerCleanup(_, _, _, _)
TriggerCleanupNoCatch(cbs, i, run, serial) ==
    IF i > Len(cbs) THEN run
    ELSE LET r == CallCallback(cbs[i], i, [run EXCEPT !.invoked = Append(@, i)], serial)
         IN  IF r.threw
             THEN [r EXCEPT !.escaped = TRUE]
             ELSE TriggerCleanup(cbs, i + 1, r, serial)

TriggerCleanup(cbs, i, run, serial) ==
    IF i > Len(cbs) THEN run
    ELSE LET r == CallCallback(cbs[i], i, [run EXCEPT !.invoked = Append(@, i)], serial)
         IN  IF r.threw
             THEN TriggerCleanup(cbs, i + 1,
                                 [r EXCEPT !.threw = FALSE, !.caught = @ + 1], serial)
             ELSE TriggerCleanup(cbs, i + 1, r, serial)

\* a step of the monitor that is not a tick
MonOp(op, was, same) == [op |-> op, was |-> was, same |-> same]

\* MemoryManager.initialize
Initialize ==
    /\ ~hung
    /\ LET r == StartMonitoring(monitor, timers)
       IN  /\ monitor' = r.monitor
           /\ timers' = r.timers
           /\ lastOp' = MonOp("startMonitoring", monitor.monitoring,
                              r.monitor = monitor /\ r.timers = timers)
    /\ UNCHANGED <<lru, now, hung, recency, mmVars, manager, running>>

\* MemoryPressureMonitor.stopMonitoring called on its own
Stop ==
    /\ ~hung
    /\ LET r == StopMonitoring(monitor, timers)
       IN  /\ monitor' = r.monitor
           /\ timers' = r.timers
           /\ lastOp' = MonOp("stopMonitoring", monitor.monitoring,
                              r.monitor = monitor /\ r.timers = timers)
    /\ UNCHANGED <<lru, now, hung, recency, mmVars, manager, running>>

\* MemoryManager.dispose
Dispose ==
    /\ ~hung
    /\ LET r == StopMonitoring(monitor, timers)
       IN  /\ monitor' = r.monitor
           /\ timers' = r.timers
           /\ lastOp' = MonOp("dispose", monitor.monitoring,
                              r.monitor = monitor /\ r.timers = timers)
    /\ lru' = LRUClear(lru)
    /\ manager' = [manager EXCEPT !.lazyLoadedFiles = {},
                                  !.stale = Len(monitor.cleanupCallbacks)]
    /\ UNCHANGED <<now, hung, recency, mmVars, running>>

\* MemoryPressureMonitor.addCleanupCallback
AddCleanupCallback(kind) ==
    /\ ~hung
    /\ Len(monitor.cleanupCallbacks) < MaxCallbacks
    /\ monitor' = AddCallback(monitor, kind)
    /\ lastOp' = MonOp("addCleanupCallback", monitor.monitoring, FALSE)
    /\ UNCHANGED <<lru, now, hung, recency, mmVars, timers, manager, running>>

\* the handler of an armed interval runs: checkMemoryPressure (lines 175-177,
\* 192-202) with the callbacks it triggers
TimerTick(t, usagePercent) ==
    /\ ~hung
    /\ t \in timers
    /\ manager.fired < MaxCleanups
    /\ LET serial   == manager.fired + 1
           pressure == AboveThreshold(monitor, usagePercent)
           start    == CleanupRun(manager, lru, running)
           r        == IF pressure
                       THEN TriggerCleanup(monitor.cleanupCallbacks, 1, start, serial)
                       ELSE start
       IN  /\ manager' = IF pressure THEN [r.manager EXCEPT !.fired = serial]
                                     ELSE manager
           /\ lru' = r.lru
           /\ running' = r.running
           /\ lastOp' = [op |-> "tick", timer |-> t.id, interval |-> t.interval,
                         usage |-> usagePercent, pressure |-> pressure,
                         invoked |-> r.invoked, caught |-> r.caught,
                         escaped |-> r.escaped, busy |-> running # {},
                         cacheBefore |-> lru.cache,
                         warmed |-> manager.lazyLoadedFiles]
    /\ UNCHANGED <<now, hung, recency, mmVars, monitor, timers>>

\* the work a callback started comes to its end
WorkDone(w) ==
    /\ ~hung
    /\ w \in running
    /\ running' = running \ {w}
    /\ lastOp' = MonOp("workDone", monitor.monitoring, FALSE)
    /\ UNCHANGED <<lru, now, hung, recency, mmVars, monitor, timers, manager>>

\* MemoryManager.updateConfig while the monitor exists
Reconfigure(newConfig) ==
    /\ UpdateConfig(newConfig)
    /\ UNCHANGED monVars

\* callbacks that return or throw before the tick ends
NextMonitor ==
    \/ Initialize /\ UNCHANGED <<idxVars, glines, svcVars>>
    \/ Stop /\ UNCHANGED <<idxVars, glines, svcVars>>
    \/ Dispose /\ UNCHANGED <<idxVars, glines, svcVars>>
    \/ \E k \in {"returns", "throws"} : AddCleanupCallback(k) /\ UNCHANGED <<idxVars, glines, svcVars>>
    \/ \E t \in timers, u \in Usages : TimerTick(t, u) /\ UNCHANGED <<idxVars, glines, svcVars>>
    \/ \E n \in PressureUpdates : Reconfigure(n) /\ UNCHANGED <<idxVars, glines, svcVars>>

SpecMonitor == InitManager /\ [][NextMonitor]_vars

\* callbacks whose work may outlast the tick
NextOverlap ==
    \/ Initialize /\ UNCHANGED <<idxVars, glines, svcVars>>
    \/ Dispose /\ UNCHANGED <<idxVars, glines, svcVars>>
    \/ \E k \in CallbackKinds : AddCleanupCallback(k) /\ UNCHANGED <<idxVars, glines, svcVars>>
    \/ \E t \in timers, u \in Usages : TimerTick(t, u) /\ UNCHANGED <<idxVars, glines, svcVars>>
    \/ \E w \in running : WorkDone(w) /\ UNCHANGED <<idxVars, glines, svcVars>>

SpecOverlap == InitManager /\ [][NextOverlap]_vars

-----------------------------------------------------------------------------
(* MemoryManager.preloadFiles and the pressure cleanup of a warm cache *)

\* the files of the workspace: the paths "a" .. "f" can be read, "g" cannot
WarmKeys == <<"a", "b", "c", "d", "e">>

WorkspaceFiles ==
    [p \in {"a", "b", "c", "d", "e", "f", "g"} |->
        IF p = "g" THEN NoFile ELSE File(p, 100)]

\* the cache after getFileContent loaded the first n files and then hit the
\* keys of hits in turn
RECURSIVE LoadAll(_, _)
LoadAll(c, n) ==
    IF n = 0 THEN c
    ELSE LRUSet(LoadAll(c, n - 1), WarmKeys[n], Content(WarmKeys[n], 100), 0).lru

RECURSIVE HitAll(_, _)
HitAll(c, hits) ==
    IF hits = <<>> THEN c ELSE HitAll(LRUGet(c, Head(hits), 0).lru, Tail(hits))

Warm(n, hits) ==
    HitAll(LoadAll(NewLRUCache(DEFAULT_MEMORY_CONFIG.maxCacheSize,
                               DEFAULT_MEMORY_CONFIG.maxCacheEntries), n), hits)

WarmCaches == {Warm(0, <<>>), Warm(4, <<"a", "b">>), Warm(5, <<"e", "e", "a">>)}

\* the lists and priorities preloadFiles is called with
PreloadLists == {<<"a">>, <<"a", "f">>, <<"g">>}
Priorities   == {"high", "low"}

\* `.slice(0, priority === "high" ? 50 : 20)`
PreloadLimit(priority) == IF priority = "high" THEN 50 ELSE 20

Take(seq, n) == SubSeq(seq, 1, Min(n, Len(seq)))

\* the slice taken before the filter
CandidatesSliceFirst(paths, lazy, priority) ==
    SelectSeq(Take(paths, PreloadLimit(priority)), LAMBDA p : p \notin lazy)

\* `.filter((path) => !this.lazyLoadedFiles.has(path)).slice(...)`
Candidates(paths, lazy, priority) ==
    Take(SelectSeq(paths, LAMBDA p : p \notin lazy), PreloadLimit(priority))

\* `.map(async (filePath) => ...)`: every candidate's getFileContent runs up
\* to its first await, in list order: a cache hit returns at once, a miss
\* is left suspended at fs.stat
RECURSIVE StartLoads(_, _, _)
StartLoads(cands, i, acc) ==
    IF i > Len(cands) THEN acc
    ELSE LET r == LRUGet(acc.lru, cands[i], now)
         IN  IF r.hit
             THEN StartLoads(cands, i + 1,
                     [acc EXCEPT !.lru = r.lru, !.hits = @ \cup {cands[i]}])
             ELSE StartLoads(cands, i + 1,
                     [acc EXCEPT !.lru = r.lru,
                                 !.loads = Append(@, [path |-> cands[i], pc |-> "stat",
                                                      call |-> acc.call])])

RemoveAt(seq, i) == SubSeq(seq, 1, i - 1) \o SubSeq(seq, i + 1, Len(seq))

\* `this.lazyLoadedFiles.add(filePath)` for each path of ps
Warmed(mgr, ps) ==
    [mgr EXCEPT !.lazyLoadedFiles = @ \cup ps, !.cleared = @ \ ps]

\* a candidate's promise without the try/catch around getFileContent
ElementPromiseNoCatch(ok) == IF ok THEN "fulfilled" ELSE "rejected"

\* the promise of one candidate (lines 333-341): the catch block turns a
\* failed getFileContent into a fulfilled promise
ElementPromise(ok) == "fulfilled"

\* a preloadFiles call that has started its loads: the candidates, the paths
\* whose getFileContent succeeded or failed so far, the number of loads not
\* settled, and whether Promise.all was given a rejected promise
NewCall(id, cands, hits, pending) ==
    [id |-> id, requested |-> cands, loaded |-> hits, failed |-> {},
     pending |-> pending, rejected |-> FALSE]

CallIndex(preloading, id) == CHOOSE k \in 1..Len(preloading) : preloading[k].id = id

\* one load of the call settles
Settled(call, path, ok) ==
    [call EXCEPT !.pending = @ - 1,
                 !.loaded = IF ok THEN @ \cup {path} ELSE @,
                 !.failed = IF ok THEN @ ELSE @ \cup {path},
                 !.rejected = @ \/ ElementPromise(ok) = "rejected"]

\* the calls in flight after one of them changed to call: `await
\* Promise.all(batch)` returns when the last load of the batch has settled
AfterSettle(preloading, call) ==
    LET k == CallIndex(preloading, call.id)
    IN  IF call.pending = 0 THEN SubSeq(preloading, 1, k - 1) \o
                                 SubSeq(preloading, k + 1, Len(preloading))
        ELSE [preloading EXCEPT ![k] = call]

\* a load of a preloadFiles call has settled; done tells that the call returned
LoadOp(path, ok, call) ==
    [op |-> "load", path |-> path, ok |-> ok, done |-> call.pending = 0, call |-> call]

\* MemoryManager.preloadFiles up to its first suspension; the loads that hit
\* the cache are added to lazyLoadedFiles before any other task runs, and a
\* call all of whose candidates hit returns
PreloadFiles(paths, priority) ==
    /\ ~hung
    /\ manager.preloads < MaxPreloads
    /\ LET cands == Candidates(paths, manager.lazyLoadedFiles, priority)
           id    == manager.preloads + 1
           r     == StartLoads(cands, 1, [lru |-> lru, hits |-> {}, call |-> id,
                                          loads |-> manager.loads])
           call  == NewCall(id, cands, r.hits, Len(r.loads) - Len(manager.loads))
       IN  /\ lru' = r.lru
           /\ manager' = [Warmed(manager, r.hits) EXCEPT
                             !.loads = r.loads,
                             !.preloads = @ + 1,
                             !.preloading = IF call.pending = 0 THEN @
                                            ELSE Append(@, call)]
           /\ lastOp' = [op |-> "preloadFiles", paths |-> paths, priority |-> priority,
                         requested |-> cands, cleared |-> manager.cleared,
                         done |-> call.pending = 0, call |-> call]
    /\ UNCHANGED <<now, hung, recency, mmVars, monitor, timers, running>>

\* fs.stat of a preload's getFileContent resolves; an error is caught and
\* logged by preloadFiles (lines 337-340)
LoadStat(i) ==
    /\ ~hung
    /\ i \in 1..Len(manager.loads)
    /\ manager.loads[i].pc = "stat"
    /\ LET load == manager.loads[i]
           f    == disk[load.path]
           call == Settled(manager.preloading[CallIndex(manager.preloading, load.call)],
                           load.path, FALSE)
       IN  IF ~f.exists
           THEN /\ manager' = [manager EXCEPT
                                  !.loads = RemoveAt(@, i),
                                  !.preloading = AfterSettle(@, call)]
                /\ lastOp' = LoadOp(load.path, FALSE, call)
           ELSE /\ manager' = [manager EXCEPT !.loads[i] =
                                  [path |-> load.path, pc |-> "read",
                                   call |-> load.call, fileSize |-> f.bytes,
                                   route |-> Route(config, f.bytes)]]
                /\ lastOp' = MonOp("loadStat", monitor.monitoring, FALSE)
    /\ UNCHANGED <<lru, now, hung, recency, mmVars, monitor, timers, running>>

\* the read of a preload's getFileContent resolves: the content is cached if
\* appropriate and the path is recorded as warmed
LoadRead(i) ==
    /\ ~hung
    /\ i \in 1..Len(manager.loads)
    /\ manager.loads[i].pc = "read"
    /\ LET load == manager.loads[i]
           f    == disk[load.path]
           call == Settled(manager.preloading[CallIndex(manager.preloading, load.call)],
                           load.path, f.exists)
           rest == [manager EXCEPT !.loads = RemoveAt(@, i),
                                   !.preloading = AfterSettle(@, call)]
       IN  /\ IF ~f.exists
              THEN /\ manager' = rest
                   /\ UNCHANGED <<lru, hung>>
              ELSE /\ manager' = Warmed(rest, {load.path})
                   /\ IF ShouldCache(config, load.fileSize)
                      THEN LET r == LRUSet(lru, load.path,
                                           ReadContent(load.route, f, load.fileSize), now)
                           IN  lru' = r.lru /\ hung' = r.hung
                      ELSE UNCHANGED <<lru, hung>>
           /\ lastOp' = LoadOp(load.path, f.exists, call)
    /\ UNCHANGED <<now, recency, mmVars, monitor, timers, running>>

\* a manager whose cache was filled by earlier getFileContent calls
InitCleanup ==
    /\ config = DEFAULT_MEMORY_CONFIG
    /\ lru \in WarmCaches
    /\ disk = WorkspaceFiles
    /\ InitReads
    /\ now = 0
    /\ hung = FALSE
    /\ lastOp = MonOp("new", FALSE, FALSE)
    /\ recency = <<>>
    /\ InitIdle
    /\ InitRest

NextCleanup ==
    \/ Initialize /\ UNCHANGED <<idxVars, glines, svcVars>>
    \/ \E t \in timers, u \in Usages : TimerTick(t, u) /\ UNCHANGED <<idxVars, glines, svcVars>>
    \/ \E ps \in PreloadLists, pr \in Priorities :
          PreloadFiles(ps, pr) /\ UNCHANGED <<idxVars, glines, svcVars>>
    \/ \E i \in 1..Len(manager.loads) : LoadStat(i) /\ UNCHANGED <<idxVars, glines, svcVars>>
    \/ \E i \in 1..Len(manager.loads) : LoadRead(i) /\ UNCHANGED <<idxVars, glines, svcVars>>

SpecCleanup == InitCleanup /\ [][NextCleanup]_vars

-----------------------------------------------------------------------------
(* MemoryManager.getFileLines: chunked reading of a file *)

\* a text is a sequence of characters: "a" (a one-byte character), "n" (the
\* newline) and "e" (a character of two bytes in UTF-8); "?" is U+FFFD, which
\* decoding puts in the place of a malformed byte
Chars == {"a", "n", "e"}

Texts == UNION {[1..k -> Chars] : k \in 0..MaxChars}

\* UTF-8: "L" and "T" are the lead and the continuation byte of "e"
RECURSIVE Encode(_)
Encode(text) ==
    IF text = <<>> THEN <<>>
    ELSE (IF Head(text) = "e" THEN <<"L", "T">> ELSE <<Head(text)>>) \o Encode(Tail(text))

\* Buffer.from(bytes).toString("utf8")
RECURSIVE Decode(_)
Decode(bytes) ==
    IF bytes = <<>> THEN <<>>
    ELSE IF Head(bytes) = "L"
         THEN IF Len(bytes) >= 2 /\ bytes[2] = "T"
              THEN <<"e">> \o Decode(Tail(Tail(bytes)))
              ELSE <<"?">> \o Decode(Tail(bytes))
         ELSE IF Head(bytes) = "T"
              THEN <<"?">> \o Decode(Tail(bytes))
              ELSE <<Head(bytes)>> \o Decode(Tail(bytes))

\* String.prototype.lastIndexOf("\n"), from 1; 0 stands for -1
RECURSIVE LastIndexOf(_, _)
LastIndexOf(str, i) ==
    IF i = 0 THEN 0 ELSE IF str[i] = "n" THEN i ELSE LastIndexOf(str, i - 1)

\* String.prototype.split("\n"): the empty string gives one empty line
RECURSIVE Split(_, _, _)
Split(str, i, line) ==
    IF i > Len(str) THEN <<line>>
    ELSE IF str[i] = "n"
         THEN <<line>> \o Split(str, i + 1, <<>>)
         ELSE Split(str, i + 1, Append(line, str[i]))

SplitLines(str) == Split(str, 1, <<>>)

\* Array.prototype.slice(startLine, endLine + 1)
Slice(lines, startLine, endLine) ==
    SubSeq(lines, startLine + 1, Min(endLine + 1, Len(lines)))

\* MemoryIntegrationService.getFileLines when it is not enabled: the whole
\* file is read, split and sliced
WholeFileLines(bytes, startLine, endLine) ==
    Slice(SplitLines(Decode(bytes)), startLine, endLine)

\* lines 385-387 for one line of currentLines
EmitLineAfterStart(g, line) ==
    IF g.lineNumber > g.startLine /\ g.lineNumber <= g.endLine
    THEN [g EXCEPT !.lines = Append(@, line)]
    ELSE g

EmitLine(g, line) ==
    IF g.lineNumber >= g.startLine /\ g.lineNumber <= g.endLine
    THEN [g EXCEPT !.lines = Append(@, line)]
    ELSE g

\* the `for` over currentLines (lines 384-393): returned is set by `return lines`
RECURSIVE EmitLines(_, _, _)
EmitLines(g, currentLines, i) ==
    IF i > Len(currentLines) THEN g
    ELSE LET h == [EmitLine(g, currentLines[i]) EXCEPT !.lineNumber = @ + 1]
         IN  IF h.lineNumber > h.endLine
             THEN [h EXCEPT !.returned = TRUE]
             ELSE EmitLines(h, currentLines, i + 1)

\* lines 399-402, then the `finally` block is reached
RemainingBuffer(g) ==
    [(IF g.buffer # <<>> /\ g.lineNumber >= g.startLine /\ g.lineNumber <= g.endLine
      THEN [g EXCEPT !.lines = Append(@, g.buffer)]
      ELSE g) EXCEPT !.pc = "close"]

\* the `while` condition (line 369): another read, or the end of the loop
LoopTest(g) ==
    IF g.lineNumber <= g.endLine THEN [g EXCEPT !.pc = "read"] ELSE RemainingBuffer(g)

\* handle.read resolves (lines 371-396): one pass through the loop body
ReadChunk(g) ==
    LET bytesRead == Min(ChunkSize, Len(g.bytes) - g.position)
        chunk     == SubSeq(g.bytes, g.position + 1, g.position + bytesRead)
        g1        == [g EXCEPT !.reads = @ + 1]
    IN  IF bytesRead = 0 THEN RemainingBuffer(g1)
        ELSE LET g2 == [g1 EXCEPT !.buffer = @ \o Decode(chunk),
                                  !.position = @ + bytesRead]
                 lineBreakIndex == LastIndexOf(g2.buffer, Len(g2.buffer))
             IN  IF lineBreakIndex = 0 THEN LoopTest(g2)
                 ELSE LET completeText == SubSeq(g2.buffer, 1, lineBreakIndex - 1)
                          g3 == EmitLines(g2, SplitLines(completeText), 1)
                      IN  IF g3.returned
                          THEN [g3 EXCEPT !.pc = "close"]
                          ELSE LoopTest([g3 EXCEPT !.buffer =
                                   SubSeq(g2.buffer, lineBreakIndex + 1, Len(g2.buffer))])

\* a call getFileLines(filePath, startLine, endLine) on a file holding text
LineCall(text, startLine, endLine) ==
    [pc |-> "call", bytes |-> Encode(text), startLine |-> startLine,
     endLine |-> endLine, lineNumber |-> 0, buffer |-> <<>>, position |-> 0,
     lines |-> <<>>, reads |-> 0, returned |-> FALSE]

\* fs.open resolves (lines 359-369)
GflOpen ==
    /\ glines.pc = "call"
    /\ glines' = LoopTest(glines)
    /\ lastOp' = NoOp

GflRead ==
    /\ glines.pc = "read"
    /\ glines' = ReadChunk(glines)
    /\ lastOp' = NoOp

\* handle.close resolves (lines 403-407): the call returns its lines
GflClose ==
    /\ glines.pc = "close"
    /\ glines' = [pc |-> "done"]
    /\ lastOp' = [op |-> "getFileLines", bytes |-> glines.bytes,
                  startLine |-> glines.startLine, endLine |-> glines.endLine,
                  out |-> glines.lines, reads |-> glines.reads,
                  position |-> glines.position]

linesFrame == <<lru, now, hung, recency, mmVars, idxVars, monVars, svcVars>>

\* a manager that is asked for lines of a file
InitLines ==
    /\ config = DEFAULT_MEMORY_CONFIG
    /\ lru = NewLRUCache(config.maxCacheSize, config.maxCacheEntries)
    /\ disk = [p \in Keys |-> NoFile]
    /\ InitReads
    /\ now = 0
    /\ hung = FALSE
    /\ lastOp = NoOp
    /\ recency = <<>>
    /\ InitIdle
    /\ InitPressure
    /\ InitQuiet
    /\ \E text \in Texts, a \in 0..MaxLine, b \in 0..MaxLine :
          a <= b /\ glines = LineCall(text, a, b)

NextLines ==
    \/ GflOpen /\ UNCHANGED linesFrame
    \/ GflRead /\ UNCHANGED linesFrame
    \/ GflClose /\ UNCHANGED linesFrame

SpecLines == InitLines /\ [][NextLines]_vars

-----------------------------------------------------------------------------
(* Claims about LRUCache, checked under SpecLRU *)

\* C1: in every reachable state the sizes of the live entries sum to
\* currentSize, currentSize <= maxSize and the entry count <= maxEntries
\* (keys are unique, as in a Map).
C1_SizeAccounting ==
    /\ SumSizes(lru.cache) = lru.currentSize
    /\ lru.currentSize <= lru.maxSize
    /\ Len(lru.cache) <= lru.maxEntries
    /\ Cardinality(KeySet(lru.cache)) = Len(lru.cache)

\* a put has just replaced an existing key in a full cache, after an eviction
C1_Witness ==
    /\ lastOp.op = "put" /\ lastOp.ok
    /\ Len(lru.cache) = lru.maxEntries
    /\ Len(recency) > Len(lru.cache)
    /\ lru.currentSize = 160

ExampleAfterPutA ==
    /\ lru.maxSize = 1000
    /\ recency = <<"a">>
    /\ Len(lru.cache) = 1 /\ lru.cache[1].key = "a" /\ lru.cache[1].size = 100

IsPut(op, key, bytes) == op.op = "put" /\ op.key = key /\ op.arg.bytes = bytes

\* C3 as stated: put("a",100) is accepted, put("b",950) is accepted and
\* leaves only "b", then get("a") misses and get("b") hits.
C3_Original ==
    [][ /\ (lru.maxSize = 1000 /\ lru.cache = <<>> /\ IsPut(lastOp', "a", 100))
            => lastOp'.ok
        /\ (ExampleAfterPutA /\ IsPut(lastOp', "b", 950))
            => (lastOp'.ok /\ KeySet(lru'.cache) = {"b"})
        /\ (lru.maxSize = 1000 /\ IsPut(lastOp, "b", 950) /\ recency = <<"a">>
              /\ lastOp'.op = "get")
            => /\ lastOp'.key = "a" => ~lastOp'.ok
               /\ lastOp'.key = "b" => lastOp'.ok
      ]_vars

\* C3 amended: put("a",100) is accepted; put("b",950) is rejected (950 is
\* more than 10% of 1000) and leaves the cache as it was, holding only "a";
\* then get("a") hits and get("b") misses.
C3_Example ==
    [][ /\ (lru.maxSize = 1000 /\ lru.cache = <<>> /\ IsPut(lastOp', "a", 100))
            => (lastOp'.ok /\ KeySet(lru'.cache) = {"a"})
        /\ (ExampleAfterPutA /\ IsPut(lastOp', "b", 950))
            => (~lastOp'.ok /\ lru' = lru)
        /\ (ExampleAfterPutA /\ IsPut(lastOp, "b", 950) /\ lastOp'.op = "get")
            => /\ lastOp'.key = "a" => (lastOp'.ok /\ lastOp'.out.bytes = 100)
               /\ lastOp'.key = "b" => ~lastOp'.ok
      ]_vars

\* put("b", 950 bytes) has just been answered on the cache holding only "a"
C3_Witness ==
    /\ ExampleAfterPutA
    /\ IsPut(lastOp, "b", 950)

\* C4: a put whose content is larger than 10% of maxSize is rejected and
\* leaves the entry map, its order and currentSize as they were, whether or
\* not the key is present.
C4_AntiPollution ==
    [][ (lastOp'.op = "put" /\ ByteLength(lastOp'.arg) * 10 > lru.maxSize)
            => (~lastOp'.ok /\ lru'.cache = lru.cache
                  /\ lru'.currentSize = lru.currentSize) ]_vars

\* an oversized put for a key that is present has been rejected
C4_Witness ==
    /\ lastOp.op = "put" /\ ~lastOp.ok
    /\ ByteLength(lastOp.arg) * 10 > lru.maxSize
    /\ MapHas(lru.cache, lastOp.key)
    /\ Len(lru.cache) = 2


-----------------------------------------------------------------------------
(* Claims about MemoryManager.getFileContent, checked under SpecManager *)

\* C5: every getFileContent returns what a manager with a cold cache would
\* return at that moment. A call answered from disk is itself the cold read;
\* a call answered from the cache must equal the file's current content, or
\* fail as stat would fail now.
C5_ColdEquivalence ==
    (lastOp.op = "getFileContent" /\ lastOp.via = "cache") =>
        LET cold == ColdResult(config, disk[lastOp.key])
        IN  lastOp.ok = cold.ok /\ lastOp.out = cold.out

\* C6: getFileContent inserts into the cache only content read on the
\* non-streaming path (size <= streamThreshold) of a file with
\* size <= maxFileSize.
C6_StreamedNotCached ==
    (lastOp.op = "getFileContent" /\ lastOp.inserted) =>
        /\ lastOp.via = "full"
        /\ lastOp.statSize <= config.streamThreshold
        /\ lastOp.statSize <= config.maxFileSize


-----------------------------------------------------------------------------
(* Claims about CodeIndexCache, checked under SpecIndex *)

\* C7: getCachedDefinitions returns the stored value only if the file exists,
\* the mtime its stat returned equals the stored mtime and the hash of the
\* content it read equals the stored hash; otherwise it returns null and
\* the entry for the path is gone.
C7_HitOnlyIfValid ==
    lastOp.op = "getCachedDefinitions" =>
        LET f == files[lastOp.key]
        IN  /\ lastOp.hit =>
                /\ lastOp.cached.present
                /\ lastOp.out = lastOp.cached.definitions
                /\ f.exists
                /\ GenerateHash(f.content) = lastOp.cached.hash
                /\ lastOp.sawMtime = lastOp.cached.lastModified
            /\ ~lastOp.hit =>
                /\ lastOp.out = NoValue
                /\ ~index.definitions[lastOp.key].present

\* a miss decided by the hash alone: the file exists and its mtime matched
C7_Witness ==
    /\ lastOp.op = "getCachedDefinitions" /\ ~lastOp.hit
    /\ lastOp.cached.present
    /\ files[lastOp.key].exists
    /\ files[lastOp.key].mtime = lastOp.cached.lastModified
    /\ lastOp.sawMtime = lastOp.cached.lastModified

\* C8: once cacheDefinitions has completed and the file has then been
\* rewritten with new content and a later mtime, the next
\* getCachedDefinitions returns null and leaves no entry for the path.
C8_RewriteInvalidates ==
    (lastOp.op = "getCachedDefinitions" /\ lastOp.afterRewrite) =>
        /\ ~lastOp.hit
        /\ lastOp.out = NoValue
        /\ ~index.definitions[lastOp.key].present

\* no watcher event was delivered: the call found the stale entry, whose hash
\* equals the hash of the new content
C8_Witness ==
    /\ lastOp.op = "getCachedDefinitions" /\ lastOp.afterRewrite
    /\ lastOp.cached.present
    /\ files[lastOp.key].exists
    /\ GenerateHash(files[lastOp.key].content) = lastOp.cached.hash

\* C9 as stated: the second of two consecutive undisturbed calls returns what
\* the first returned and changes nothing but the hit counter.
C9_Original ==
    (window.phase = 2 /\ window.paired) =>
        /\ window.out = window.out1
        /\ index.definitions = window.after1.definitions
        /\ index.missCount = window.after1.missCount

\* C9 amended: the second call returns what the first returned and changes
\* nothing but one counter: the hit counter (by one) when both are hits, the
\* miss counter (by one) when both are misses.
C9_Idempotence ==
    (window.phase = 2 /\ window.paired) =>
        /\ window.out = window.out1
        /\ index.definitions = window.after1.definitions
        /\ index.version = window.after1.version
        /\ IF window.hit
           THEN /\ index.hitCount = window.after1.hitCount + 1
                /\ index.missCount = window.after1.missCount
           ELSE /\ index.missCount = window.after1.missCount + 1
                /\ index.hitCount = window.after1.hitCount

\* two consecutive misses, the first of which removed a stale entry
C9_Witness ==
    /\ window.phase = 2 /\ window.paired /\ ~window.hit
    /\ index.missCount = 2
    /\ files[window.path].exists

\* C10: a hit returns definitions derived from the file's current content.
C10_HitServesCurrent ==
    (lastOp.op = "getCachedDefinitions" /\ lastOp.hit) =>
        lastOp.out = Parse(files[lastOp.key].content)


-----------------------------------------------------------------------------
(* Claims about MemoryPressureMonitor, checked under SpecMonitor and         *)
(* SpecOverlap                                                               *)

\* the indices 1..n in order: every callback once, in registration order
InOrder(n) == [i \in 1..n |-> i]

IsPrefix(a, b) == Len(a) <= Len(b) /\ SubSeq(b, 1, Len(a)) = a

\* C11: a tick of a monitoring monitor whose sampled usagePercent is strictly
\* above the cleanup threshold the monitor holds calls every registered
\* callback once, in registration order; a tick at or below it calls none.
C11_PressureTick ==
    lastOp.op = "tick" =>
        IF lastOp.usage > monitor.config.cleanupThreshold
        THEN lastOp.invoked = InOrder(Len(monitor.cleanupCallbacks))
        ELSE lastOp.invoked = <<>>

C11_Witness ==
    /\ lastOp.op = "tick"
    /\ lastOp.usage > monitor.config.cleanupThreshold
    /\ Len(lastOp.invoked) >= 2

\* C14: when a callback throws during a pressure tick, the callbacks
\* registered after it still run in that tick, the error stays inside the
\* tick, and the monitor is still Monitoring with its timer armed.
C14_CallbackIsolation ==
    (/\ lastOp.op = "tick"
     /\ lastOp.pressure
     /\ \E i \in 1..Len(monitor.cleanupCallbacks) : monitor.cleanupCallbacks[i] = "throws")
    => /\ lastOp.invoked = InOrder(Len(monitor.cleanupCallbacks))
       /\ ~lastOp.escaped
       /\ monitor.monitoring
       /\ \E t \in timers : t.id = lastOp.timer

C14_Witness ==
    /\ lastOp.op = "tick"
    /\ lastOp.pressure
    /\ Len(monitor.cleanupCallbacks) = 3
    /\ monitor.cleanupCallbacks[2] = "throws"
    /\ lastOp.caught = 1
    /\ lastOp.invoked = <<1, 2, 3>>

\* C15: no two pressure cleanups overlap: a tick that fires while the work
\* launched by an earlier tick is still running launches nothing, and at
\* every instant the work in progress belongs to at most one tick.
C15_NoOverlap ==
    /\ Cardinality({w[1] : w \in running}) <= 1
    /\ (lastOp.op = "tick" /\ lastOp.busy) => lastOp.invoked = <<>>

\* C16: start and stop are idempotent: at most one interval timer is armed,
\* the monitoring flag is true exactly when one is, start while Monitoring
\* and stop while Idle change nothing, and after stop or dispose no timer is
\* left to fire a tick.
C16_StartStopIdempotent ==
    /\ Cardinality(timers) <= 1
    /\ monitor.monitoring <=> timers # {}
    /\ monitor.monitoring => \E t \in timers : t.id = monitor.intervalId
    /\ (lastOp.op = "startMonitoring" /\ lastOp.was) => lastOp.same
    /\ (lastOp.op = "stopMonitoring" /\ ~lastOp.was) => lastOp.same
    /\ lastOp.op \in {"stopMonitoring", "dispose"} => timers = {}
    /\ lastOp.op = "tick" => monitor.monitoring

C16_Witness ==
    /\ lastOp.op = "startMonitoring"
    /\ lastOp.was
    /\ Cardinality(timers) = 1

\* C17: the callback list only grows, by addCleanupCallback appending, until
\* dispose; after dispose it is empty, and no callback registered before the
\* dispose is called by a later tick.
C17_CallbacksClearedOnDispose ==
    [][/\ lastOp'.op # "dispose" =>
              /\ IsPrefix(monitor.cleanupCallbacks, monitor'.cleanupCallbacks)
              /\ monitor'.cleanupCallbacks # monitor.cleanupCallbacks
                    => lastOp'.op = "addCleanupCallback"
       /\ lastOp'.op = "dispose" => monitor'.cleanupCallbacks = <<>>
       /\ lastOp'.op = "tick" =>
              \A k \in 1..Len(lastOp'.invoked) : lastOp'.invoked[k] > manager.stale
      ]_vars

\* C18: configuration is hot-reloadable: after updateConfig every tick
\* compares the usage with the manager's current cleanupThreshold and the
\* timer runs at the manager's current memoryCheckInterval.
C18_HotReload ==
    lastOp.op = "tick" =>
        /\ lastOp.pressure <=> lastOp.usage > config.cleanupThreshold
        /\ lastOp.interval = config.memoryCheckInterval


-----------------------------------------------------------------------------
(* Claims about the pressure cleanup of the cache, checked under SpecCleanup *)

\* C12: when the cleanup callback runs on a cache holding n >= 4 entries it
\* removes about n/4 of them, those with the lowest access counts, so the
\* entry count and currentSize are strictly lower afterwards.
C12_CleanupEvicts ==
    (lastOp.op = "tick" /\ lastOp.pressure /\ Len(lastOp.cacheBefore) >= 4) =>
        LET before  == lastOp.cacheBefore
            n       == Len(before)
            removed == {i \in 1..n : ~MapHas(lru.cache, before[i].key)}
        IN  /\ Len(lru.cache) < n
            /\ lru.currentSize < SumSizes(before)
            /\ Cardinality(removed) \in {n \div 4, (n + 3) \div 4}
            /\ \A i \in removed, j \in (1..n) \ removed :
                   before[i].accessCount <= before[j].accessCount

-----------------------------------------------------------------------------
(* Claims about MemoryManager.getFileLines, checked under SpecLines *)

\* the text the chunks decode to, one chunk after the other
RECURSIVE ChunkDecoded(_)
ChunkDecoded(bytes) ==
    IF bytes = <<>> THEN <<>>
    ELSE Decode(SubSeq(bytes, 1, Min(ChunkSize, Len(bytes))))
            \o ChunkDecoded(SubSeq(bytes, Min(ChunkSize, Len(bytes)) + 1, Len(bytes)))

\* the offset of the k-th newline byte, 0 when there are fewer
RECURSIVE NewlineOffset(_, _, _)
NewlineOffset(bytes, k, i) ==
    IF i > Len(bytes) THEN 0
    ELSE IF bytes[i] = "n"
         THEN IF k = 1 THEN i ELSE NewlineOffset(bytes, k - 1, i + 1)
         ELSE NewlineOffset(bytes, k, i + 1)

\* C19: streaming equivalence: for every bounded content and range a <= b,
\* getFileLines returns exactly the list obtained by loading the whole file,
\* splitting it on newline and slicing lines a..b inclusive.
C19_StreamingEquivalence ==
    lastOp.op = "getFileLines" =>
        lastOp.out = WholeFileLines(lastOp.bytes, lastOp.startLine, lastOp.endLine)

\* C20: getFileLines returns only lines whose index is in [start, end], in
\* file order and at most end-start+1 of them; once line end is emitted no
\* further read is made; the final line is returned when it has no trailing
\* newline and its index is in the range.
C20_RangeAndStop ==
    lastOp.op = "getFileLines" =>
        LET ref      == SplitLines(ChunkDecoded(lastOp.bytes))
            a        == lastOp.startLine
            b        == lastOp.endLine
            k        == Len(lastOp.out)
            endBreak == NewlineOffset(lastOp.bytes, b + 1, 1)
            last     == Len(ref) - 1
        IN  /\ k <= b - a + 1
            /\ k > 0 => a + k <= Len(ref)
            /\ lastOp.out = SubSeq(ref, a + 1, a + k)
            /\ endBreak # 0 =>
                  /\ k = b - a + 1
                  /\ lastOp.reads = (endBreak + ChunkSize - 1) \div ChunkSize
            /\ (ref[last + 1] # <<>> /\ a <= last /\ last <= b) => a + k = Len(ref)

C20_Witness ==
    /\ lastOp.op = "getFileLines"
    /\ lastOp.bytes = <<"a", "n", "a">>
    /\ lastOp.startLine = 0
    /\ lastOp.endLine = 1
    /\ lastOp.out = <<(<<"a">>), (<<"a">>)>>
    /\ lastOp.reads >= 2

-----------------------------------------------------------------------------
(* Claims about the loading strategies, checked under SpecManager *)

\* C21: for a file larger than the 50MB ceiling getFileContent returns at most
\* the leading 1MB window followed by the truncation marker and never the
\* whole file; for a file between streamThreshold and the ceiling it returns
\* the full content.  The file is the one on disk when the call returns.
C21_WindowForHugeFiles ==
    (lastOp.op = "getFileContent" /\ lastOp.ok /\ disk[lastOp.key].exists) =>
        LET f == disk[lastOp.key]
        IN  /\ f.bytes > StreamCeiling =>
                /\ lastOp.out.trunc
                /\ lastOp.out.text = f.text
                /\ lastOp.out.bytes <= StreamWindow + NoticeLength(f.bytes)
            /\ (f.bytes > config.streamThreshold /\ f.bytes <= StreamCeiling) =>
                lastOp.out = Content(f.text, f.bytes)

\* the same statement about the size that the call's own stat reported: the
\* strategy follows that size, whatever the file has become since
C21_BySizeSeen ==
    (lastOp.op = "getFileContent" /\ lastOp.ok /\ lastOp.via # "cache") =>
        /\ lastOp.statSize > StreamCeiling =>
                /\ lastOp.via = "window"
                /\ lastOp.out.trunc
                /\ lastOp.out.bytes <= StreamWindow + NoticeLength(lastOp.statSize)
        /\ (lastOp.statSize > config.streamThreshold /\ lastOp.statSize <= StreamCeiling) =>
                /\ lastOp.via = "stream"
                /\ lastOp.out = Content(disk[lastOp.key].text, disk[lastOp.key].bytes)

-----------------------------------------------------------------------------
(* A cache that is full: the operations of one LRUCache object, started in *)
(* states where set has to evict to make room.                             *)

MaxPuts == 2    \* at most this many LRUCache.set calls after the start state

\* the keys the specification gets and sets, the contents it sets
FullKeys     == {"k0", "n"}
FullContents == {Content("x", 100), Content("z", 60), Content("y", 950)}

\* key and content of the set calls that built a start state, in call order
Fill(keys, bytes) == [i \in 1..Len(keys) |-> [key |-> keys[i], bytes |-> bytes[i]]]

\* eleven entries that fill 1000 bytes exactly (room for 20 entries)
ByteBoundFill ==
    Fill(<<"k0", "k1", "k2", "k3", "k4", "k5", "k6", "k7", "k8", "k9", "k10">>,
         <<40, 60, 100, 100, 100, 100, 100, 100, 100, 100, 100>>)

\* three entries in a cache of at most three (1000 bytes)
CountBoundFill == Fill(<<"k0", "k1", "k2">>, <<60, 60, 60>>)

\* the cache after the set calls of fill, all made at time t
RECURSIVE SetAll(_, _, _)
SetAll(c, fill, t) ==
    IF fill = <<>> THEN c
    ELSE SetAll(LRUSet(c, Head(fill).key, Content("x", Head(fill).bytes), t).lru,
                Tail(fill), t)

StartStates ==
    {[fill |-> ByteBoundFill,  maxSize |-> 1000, maxEntries |-> 20],
     [fill |-> CountBoundFill, maxSize |-> 1000, maxEntries |-> 3]}

\* LRUCache.getStats; hitRate is the exact quotient num / den
GetStatsByMisses(c) ==
    [size |-> c.currentSize, entries |-> Len(c.cache),
     hitRate |-> IF c.totalRequests > 0
                 THEN [num |-> (c.totalRequests - c.cacheHits) * 100,
                       den |-> c.totalRequests]
                 ELSE [num |-> 0, den |-> 1],
     requests |-> c.totalRequests]

GetStats(c) ==
    [size |-> c.currentSize, entries |-> Len(c.cache),
     hitRate |-> IF c.totalRequests > 0
                 THEN [num |-> c.cacheHits * 100, den |-> c.totalRequests]
                 ELSE [num |-> 0, den |-> 1],
     requests |-> c.totalRequests]

\* Math.round of the quotient a / b (a >= 0, b > 0)
Round(a, b) == (2 * a + b) \div (2 * b)

\* the cache fields of MemoryManager.getStats
ManagerStats(c) ==
    LET cacheStats == GetStats(c)
        cacheHits  == Round(cacheStats.hitRate.num * cacheStats.requests,
                            100 * cacheStats.hitRate.den)
    IN  [cacheSize |-> cacheStats.size, cacheEntries |-> cacheStats.entries,
         cacheHitRate |-> cacheStats.hitRate, cacheHits |-> cacheHits,
         cacheMisses |-> cacheStats.requests - cacheHits]

InitFull ==
    /\ \E s \in StartStates :
          /\ lru = SetAll(NewLRUCache(s.maxSize, s.maxEntries), s.fill, 0)
          /\ recency = [i \in 1..Len(s.fill) |-> s.fill[i].key]
          /\ hist = [gets |-> 0, hits |-> 0, puts |-> Len(s.fill), filled |-> Len(s.fill)]
    /\ now = 0
    /\ hung = FALSE
    /\ lastOp = Op("new", "", NullContent, TRUE, NullContent)
    /\ InitMM
    /\ InitIdle
    /\ InitPressure
    /\ glines = NoLines
    /\ service = NewService
    /\ reader = NoReader

fullFrame == <<mmVars, idxVars, monVars, glines, service, reader>>

\* a get call and its place in the history
FullGet(key) ==
    /\ CacheGet(key)
    /\ hist' = [hist EXCEPT !.gets = @ + 1,
                            !.hits = IF lastOp'.ok THEN @ + 1 ELSE @]

\* a set call and its place in the history
FullPut(key, content) ==
    /\ hist.puts - hist.filled < MaxPuts
    /\ CachePut(key, content)
    /\ hist' = [hist EXCEPT !.puts = @ + 1]

NextFull ==
    \/ Tick /\ UNCHANGED <<fullFrame, hist>>
    \/ \E k \in FullKeys : FullGet(k) /\ UNCHANGED fullFrame
    \/ \E k \in FullKeys, c \in FullContents : FullPut(k, c) /\ UNCHANGED fullFrame
    \/ CacheClear /\ UNCHANGED <<fullFrame, hist>>

SpecFull == InitFull /\ [][NextFull]_vars

-----------------------------------------------------------------------------
(* Claims about LRUCache.get / set / getStats, checked under SpecFull *)

\* C22 as stated: whatever the cache state, key and content, a
\* put(key, content) immediately followed by get(key) returns that content.
C22_PutThenGet ==
    lastOp.op = "put" =>
        LET r == LRUGet(lru, lastOp.key, now)
        IN  r.hit /\ r.out = lastOp.arg

\* C22 amended: a put(key, content) that is accepted, immediately followed
\* by get(key), returns that content and never a previous value of the key.
C22_AcceptedPutThenGet ==
    (lastOp.op = "put" /\ lastOp.ok) =>
        LET r == LRUGet(lru, lastOp.key, now)
        IN  r.hit /\ r.out = lastOp.arg

\* an accepted put has replaced the 40 bytes of "k0" in the cache that was
\* full, by 60 bytes
C22_Witness ==
    /\ lastOp.op = "put" /\ lastOp.ok
    /\ lastOp.key = "k0" /\ lastOp.arg.bytes = 60
    /\ lru.maxEntries = 20 /\ Len(lru.cache) >= 9

\* the keys in the order in which evictLRU would remove them
RECURSIVE EvictionOrder(_)
EvictionOrder(c) ==
    IF Len(c.cache) = 0 THEN <<>>
    ELSE <<c.cache[ScanLRU(c.cache, 1, 0)].key>> \o EvictionOrder(EvictLRU(c))

\* C23: a get that hits makes the entry the most recently used one (it is
\* evicted after every other entry present), adds exactly 1 to its access
\* count and to the hit counter, and leaves its content and size, the other
\* entries and currentSize alone; a get that misses returns none, is counted
\* as a request that did not hit, and changes no entry, order or currentSize.
C23_GetSemantics ==
    [][ lastOp'.op = "get" =>
          LET key == lastOp'.key
              i   == IndexOf(lru.cache, key)
              n   == Len(lru'.cache)
          IN  /\ lru'.totalRequests = lru.totalRequests + 1
              /\ lru'.currentSize = lru.currentSize
              /\ IF i # 0
                 THEN /\ lastOp'.ok /\ lastOp'.out = lru.cache[i].content
                      /\ n = Len(lru.cache)
                      /\ EvictionOrder(lru')[n] = key
                      /\ lru'.cache[IndexOf(lru'.cache, key)] =
                            [lru.cache[i] EXCEPT !.accessCount = @ + 1,
                                                 !.lastAccessed = now]
                      /\ MapDelete(lru'.cache, key) = MapDelete(lru.cache, key)
                      /\ lru'.cacheHits = lru.cacheHits + 1
                 ELSE /\ ~lastOp'.ok /\ lastOp'.out = NullContent
                      /\ lru'.cache = lru.cache
                      /\ lru'.cacheHits = lru.cacheHits
      ]_vars

\* a second hit on "k0" among entries that were all used in the same
\* millisecond: "k0" is now last of ten or more entries
C23_Witness ==
    /\ lastOp.op = "get" /\ lastOp.ok /\ lastOp.key = "k0"
    /\ Len(lru.cache) >= 10
    /\ lru.cache[Len(lru.cache)].key = "k0"
    /\ lru.cache[Len(lru.cache)].accessCount = 3
    /\ lru.cache[1].lastAccessed = lru.cache[Len(lru.cache)].lastAccessed

\* position of key in the history of uses
Rank(seq, key) == CHOOSE i \in 1..Len(seq) : seq[i] = key

\* e1 is evicted before e2: used earlier, or used in the same millisecond
\* and entered into the Map earlier (a get that hits enters the entry anew)
Before(e1, e2) ==
    \/ e1.lastAccessed < e2.lastAccessed
    \/ /\ e1.lastAccessed = e2.lastAccessed
       /\ Rank(recency, e1.key) < Rank(recency, e2.key)

RECURSIVE SumOf(_)
SumOf(entries) ==
    IF entries = {} THEN 0
    ELSE LET e == CHOOSE x \in entries : TRUE
         IN  e.size + SumOf(entries \ {e})

\* the loop test of set, negated: the entries fit together with size bytes
Room(c, entries, size) ==
    /\ SumOf(entries) + size <= c.maxSize
    /\ Cardinality(entries) < c.maxEntries

C25_Statistics ==
    LET stats == GetStats(lru)
        ms    == ManagerStats(lru)
    IN  /\ stats.requests = hist.gets
        /\ ms.cacheHits = hist.hits
        /\ ms.cacheHits <= stats.requests
        /\ ms.cacheMisses = hist.gets - hist.hits
        /\ stats.hitRate.den > 0
        /\ stats.hitRate.num * stats.requests = hist.hits * 100 * stats.hitRate.den
        /\ 0 <= stats.hitRate.num /\ stats.hitRate.num <= 100 * stats.hitRate.den
        /\ stats.requests = 0 => stats.hitRate.num = 0
        /\ stats.entries = Cardinality(KeySet(lru.cache))
        /\ stats.size = SumSizes(lru.cache)
        /\ ms.cacheEntries = stats.entries /\ ms.cacheSize = stats.size
        /\ ms.cacheHitRate = stats.hitRate

\* the cache was cleared after a hit and a miss: one hit in two requests
C25_Witness ==
    /\ lastOp.op = "clear"
    /\ hist.gets = 2 /\ hist.hits = 1
    /\ GetStats(lru).hitRate = [num |-> 100, den |-> 2]
    /\ GetStats(lru).entries = 0

-----------------------------------------------------------------------------
(* Claims about CodeIndexCache.cacheDefinitions, checked under SpecIndex *)

\* C26: cacheDefinitions is all-or-nothing: when stat and read succeed the
\* entry of the path is the value with the mtime and the hash sampled in
\* that call, nothing of a prior entry survives and nothing else changes;
\* when stat or read fails the call returns without an error and the cache,
\* a prior entry of the path included, is as it was.
C26_AllOrNothing ==
    [][ lastOp'.op = "cacheDefinitions" =>
          \E s \in Writers :
             /\ calls[s].pc \in {"cstat", "cread"}
             /\ calls'[s].pc = "idle"
             /\ LET call == calls[s]
                    f    == files[call.path]
                IN  IF f.exists
                    THEN /\ call.pc = "cread"
                         /\ lastOp'.hit
                         /\ index' = [index EXCEPT !.definitions[call.path] =
                                [present |-> TRUE, filePath |-> call.path,
                                 definitions |-> call.definitions,
                                 lastModified |-> call.mtime,
                                 hash |-> GenerateHash(f.content)]]
                    ELSE /\ ~lastOp'.hit
                         /\ index' = index
      ]_vars

\* cacheDefinitions has replaced an entry from which the new one differs in
\* value, mtime and hash
C26_Witness ==
    /\ lastOp.op = "cacheDefinitions" /\ lastOp.hit
    /\ lastOp.cached.present
    /\ LET entry == index.definitions[lastOp.key]
       IN  /\ entry.present
           /\ entry.definitions # lastOp.cached.definitions
           /\ entry.lastModified # lastOp.cached.lastModified
           /\ entry.hash # lastOp.cached.hash

-----------------------------------------------------------------------------
(* The CodeIndexCache of a running CodeIndexingService: the FileWatcher's  *)
(* events, cleanupStaleEntries, loadCache and saveCache on a cache that    *)
(* holds entries of two source files.                                      *)

WatchedPaths    == {"f.ts", "g.ts"}
EventKinds      == {"changed", "deleted", "created"}
SessionStart    == 1                    \* Date.now() of this session; earlier
                                        \* sessions wrote at time 0
\* the files that were parsed and cached, with the content they had then
CachedFiles ==
    {[p \in {} |-> <<>>], [p \in {"f.ts"} |-> <<65, 97>>],
     [p \in {"g.ts"} |-> <<67>>],
     [p \in WatchedPaths |-> IF p = "f.ts" THEN <<65, 97>> ELSE <<67>>]}
OLD_VERSION     == "0.9.0"              \* CACHE_VERSION of an earlier release
SourceFilePatterns == 11                \* `sourceFilePatterns.length`

\* the entry cacheDefinitions stored for the file with this content at time 0
EntryFor(path, content) ==
    NewEntry([path |-> path, definitions |-> Parse(content), mtime |-> 0],
             content, NoEntry)

\* a code index over the watched paths after earlier get / cache calls
IndexedStates ==
    {[definitions |-> [p \in WatchedPaths |->
                          IF p \in DOMAIN cached THEN EntryFor(p, cached[p]) ELSE NoEntry],
      lastIndexedAt |-> SessionStart, version |-> CACHE_VERSION,
      hitCount |-> 1, missCount |-> 1] : cached \in CachedFiles}

\* the value workspaceState.update keeps: the IndexCacheData object
Snapshot(ix) ==
    [present |-> TRUE, definitions |-> ix.definitions,
     lastIndexedAt |-> ix.lastIndexedAt, version |-> ix.version]

\* what an earlier session may have left in workspaceState
PersistedStates ==
    {NoSnapshot,
     [present |-> TRUE, lastIndexedAt |-> 0, version |-> CACHE_VERSION,
      definitions |-> [p \in WatchedPaths |->
                          IF p = "g.ts" THEN EntryFor(p, <<67>>) ELSE NoEntry]],
     [present |-> TRUE, lastIndexedAt |-> 0, version |-> OLD_VERSION,
      definitions |-> [p \in WatchedPaths |-> EntryFor(p, <<65, 97>>)]]}

\* initializeCache: a new, empty IndexCacheData; the counters are fields of
\* the CodeIndexCache object and stay
InitializeCache(ix, t) ==
    [ix EXCEPT !.definitions = [p \in DOMAIN ix.definitions |-> NoEntry],
               !.lastIndexedAt = t,
               !.version = CACHE_VERSION]

\* loadCache that takes a snapshot of any version
LoadedCacheAnyVersion(ix, read, failed, t) ==
    IF ~failed /\ read.present
    THEN [ix EXCEPT !.definitions = read.definitions,
                    !.lastIndexedAt = read.lastIndexedAt,
                    !.version = read.version]
    ELSE InitializeCache(ix, t)

\* the assignment loadCache makes (lines 59-69): read is what
\* workspaceState.get returned, failed tells that it threw
LoadedCache(ix, read, failed, t) ==
    IF ~failed /\ read.present /\ read.version = CACHE_VERSION
    THEN [ix EXCEPT !.definitions = read.definitions,
                    !.lastIndexedAt = read.lastIndexedAt,
                    !.version = read.version]
    ELSE InitializeCache(ix, t)

\* a handler that invalidates on every event
OnAnyEventInvalidate(ix, kind, path) == DeleteDefinition(ix, path)

\* the three handlers of a watcher (part_007 lines 47-61)
OnWatcherEvent(ix, kind, path) ==
    IF kind \in {"changed", "deleted"} THEN DeleteDefinition(ix, path) ELSE ix

\* history of a sweep in flight: something else wrote to the cache
CacheTouched(sweep) ==
    IF sweep.pc = "check" THEN [sweep EXCEPT !.quiet = FALSE] ELSE sweep

\* history of a sweep in flight: a file was written or deleted
FilesTouched(sweep) ==
    IF sweep.pc = "check" THEN [sweep EXCEPT !.still = FALSE] ELSE sweep

\* a sweep that takes the files that exist for stale
IsStaleWhenPresent(f) == f.exists

\* `!exists` (line 196)
IsStale(f) == ~f.exists

\* the second loop of cleanupStaleEntries (lines 204-206)
RECURSIVE DeleteAll(_, _)
DeleteAll(ix, staleFiles) ==
    IF staleFiles = <<>> THEN ix
    ELSE DeleteAll(DeleteDefinition(ix, Head(staleFiles)), Tail(staleFiles))

\* Object.keys(this.cache.definitions) in one of its possible orders
KeyOrders(ix) ==
    LET keys == {p \in DOMAIN ix.definitions : ix.definitions[p].present}
    IN  {s \in UNION {[1..n -> keys] : n \in 0..Cardinality(keys)} :
            /\ Len(s) = Cardinality(keys)
            /\ \A i, j \in 1..Len(s) : i # j => s[i] # s[j]}

\* a completed sweep: prior is the cache it started on, existed what
\* fileExistsAtPath answered for each key
SweepOp(sweep) ==
    [op |-> "cleanupStaleEntries", prior |-> sweep.prior, existed |-> sweep.existed,
     quiet |-> sweep.quiet, still |-> sweep.still]

serviceFrame == <<lru, now, hung, recency, mmVars, monVars, glines, hist, reader,
                  calls, window, rewritten>>

\* FileWatcher.startWatching
StartWatching ==
    /\ ~service.isActive
    /\ service' = [service EXCEPT !.isActive = TRUE, !.watchers = SourceFilePatterns]
    /\ lastOp' = NoOp
    /\ UNCHANGED <<index, files>>

\* FileWatcher.stopWatching
StopWatching ==
    /\ service.isActive
    /\ service' = [service EXCEPT !.isActive = FALSE, !.watchers = 0]
    /\ lastOp' = NoOp
    /\ UNCHANGED <<index, files>>

\* a watcher delivers an event for a source file
WatcherEvent(kind, path) ==
    /\ service.watchers > 0
    /\ index' = OnWatcherEvent(index, kind, path)
    /\ service' = IF kind = "created" THEN service
                  ELSE [service EXCEPT !.sweep = CacheTouched(@)]
    /\ lastOp' = [op |-> "event", kind |-> kind, key |-> path,
                  had |-> index.definitions[path].present]
    /\ UNCHANGED files

\* cleanupStaleEntries up to its first await (lines 190-195); with no key
\* the call is over at once
SweepStart ==
    /\ service.sweep.pc = "idle"
    /\ \E keys \in KeyOrders(index) :
          LET sweep == [pc |-> "check", filesToCheck |-> keys, staleFiles |-> <<>>,
                        prior |-> index, existed |-> [p \in {} |-> TRUE],
                        quiet |-> TRUE, still |-> TRUE]
          IN  IF keys = <<>>
              THEN /\ lastOp' = SweepOp(sweep)
                   /\ UNCHANGED service
              ELSE /\ service' = [service EXCEPT !.sweep = sweep]
                   /\ lastOp' = NoOp
    /\ UNCHANGED <<index, files>>

\* fileExistsAtPath resolves for the next key (lines 195-202); after the last
\* key the stale entries are deleted (lines 204-206)
SweepCheck ==
    /\ service.sweep.pc = "check"
    /\ LET sweep == service.sweep
           path  == Head(sweep.filesToCheck)
           next  == [sweep EXCEPT
                        !.filesToCheck = Tail(@),
                        !.staleFiles = IF IsStale(files[path]) THEN Append(@, path) ELSE @,
                        !.existed = [p \in DOMAIN @ \cup {path} |->
                                        IF p = path THEN files[path].exists ELSE @[p]]]
       IN  IF next.filesToCheck = <<>>
           THEN /\ index' = DeleteAll(index, next.staleFiles)
                /\ service' = [service EXCEPT !.sweep = NoSweep]
                /\ lastOp' = SweepOp(next)
           ELSE /\ service' = [service EXCEPT !.sweep = next]
                /\ lastOp' = NoOp
                /\ UNCHANGED index
    /\ UNCHANGED files

\* loadCache up to its await (line 57): workspaceState.get is called
LoadStart ==
    /\ service.load.pc = "idle"
    /\ service' = [service EXCEPT !.load = [pc |-> "get", read |-> service.store]]
    /\ lastOp' = NoOp
    /\ UNCHANGED <<index, files>>

\* the await of loadCache resolves or throws (lines 59-69)
LoadDone(failed) ==
    /\ service.load.pc = "get"
    /\ index' = LoadedCache(index, service.load.read, failed, now)
    /\ service' = [service EXCEPT !.load = [pc |-> "idle"],
                                  !.sweep = CacheTouched(@)]
    /\ lastOp' = [op |-> "loadCache", read |-> service.load.read, failed |-> failed]
    /\ UNCHANGED files

\* saveCache (lines 75-82): workspaceState.update keeps the cache as it is
\* at the call, or throws and keeps what it had
SaveCache(failed) ==
    /\ index' = [index EXCEPT !.lastIndexedAt = now]
    /\ service' = [service EXCEPT
                      !.store = IF failed THEN @ ELSE Snapshot(index'),
                      !.sweep = CacheTouched(@)]
    /\ lastOp' = [op |-> "saveCache", failed |-> failed]
    /\ UNCHANGED files

\* an external process writes or deletes a watched file
FileWrite(path, content) ==
    /\ files[path] # Source(now, content)
    /\ files' = [files EXCEPT ![path] = Source(now, content)]
    /\ service' = [service EXCEPT !.sweep = FilesTouched(@)]
    /\ lastOp' = NoOp
    /\ UNCHANGED index

FileDelete(path) ==
    /\ files[path].exists
    /\ files' = [files EXCEPT ![path] = NoSource]
    /\ service' = [service EXCEPT !.sweep = FilesTouched(@)]
    /\ lastOp' = NoOp
    /\ UNCHANGED index

InitService ==
    /\ index \in IndexedStates
    /\ files \in [WatchedPaths -> {NoSource, Source(SessionStart, <<67>>)}]
    /\ \E persisted \in PersistedStates :
          service = [NewService EXCEPT !.store = persisted]
    /\ calls = [s \in IndexCallers |-> [pc |-> "idle"]]
    /\ window = NoWindow
    /\ rewritten = [p \in WatchedPaths |-> "none"]
    /\ InitMM
    /\ lru = NewLRUCache(config.maxCacheSize, config.maxCacheEntries)
    /\ now = SessionStart
    /\ hung = FALSE
    /\ lastOp = NoOp
    /\ recency = <<>>
    /\ InitPressure
    /\ glines = NoLines
    /\ hist = NoHist
    /\ reader = NoReader

NextService ==
    \/ StartWatching /\ UNCHANGED serviceFrame
    \/ StopWatching /\ UNCHANGED serviceFrame
    \/ \E k \in EventKinds, p \in WatchedPaths : WatcherEvent(k, p) /\ UNCHANGED serviceFrame
    \/ SweepStart /\ UNCHANGED serviceFrame
    \/ SweepCheck /\ UNCHANGED serviceFrame
    \/ LoadStart /\ UNCHANGED serviceFrame
    \/ \E failed \in BOOLEAN : LoadDone(failed) /\ UNCHANGED serviceFrame
    \/ \E failed \in BOOLEAN : SaveCache(failed) /\ UNCHANGED serviceFrame
    \/ \E p \in WatchedPaths : FileWrite(p, <<67>>) /\ UNCHANGED serviceFrame
    \/ \E p \in WatchedPaths : FileDelete(p) /\ UNCHANGED serviceFrame

SpecService == InitService /\ [][NextService]_vars

-----------------------------------------------------------------------------
(* Claims about the FileWatcher, cleanupStaleEntries and loadCache, checked *)
(* under SpecService                                                        *)

\* C27: after a changed or deleted event for path p is handled the cache
\* holds no entry for p, and the entries of every other path and the hit
\* and miss counters are as before; a created event changes nothing.
C27_WatcherEvents ==
    [][ lastOp'.op = "event" =>
          LET p == lastOp'.key
          IN  IF lastOp'.kind \in {"changed", "deleted"}
              THEN /\ ~index'.definitions[p].present
                   /\ \A q \in WatchedPaths \ {p} :
                         index'.definitions[q] = index.definitions[q]
                   /\ index'.hitCount = index.hitCount
                   /\ index'.missCount = index.missCount
              ELSE index' = index
      ]_vars

\* a deleted event for "f.ts" has removed its entry, the entry of "g.ts" is
\* still there
C27_Witness ==
    /\ lastOp.op = "event" /\ lastOp.kind = "deleted" /\ lastOp.key = "f.ts"
    /\ lastOp.had
    /\ ~index.definitions["f.ts"].present
    /\ index.definitions["g.ts"].present

C29_LoadAllOrNothing ==
    /\ index.version = CACHE_VERSION
    /\ lastOp.op = "loadCache" =>
          IF ~lastOp.failed /\ lastOp.read.present
                /\ lastOp.read.version = CACHE_VERSION
          THEN Snapshot(index) = lastOp.read
          ELSE /\ \A p \in WatchedPaths : ~index.definitions[p].present
               /\ index.version = CACHE_VERSION

\* loadCache found a snapshot of the earlier version with two entries and
\* left an empty cache
C29_Witness ==
    /\ lastOp.op = "loadCache" /\ ~lastOp.failed
    /\ lastOp.read.present /\ lastOp.read.version = OLD_VERSION
    /\ lastOp.read.definitions["f.ts"].present
    /\ \A p \in WatchedPaths : ~index.definitions[p].present

-----------------------------------------------------------------------------
(* preloadFiles while files disappear *)

PreloadCaches == {Warm(0, <<>>), Warm(4, <<"a", "b">>)}
Deletable     == {"a", "f"}     \* the files an external process deletes

InitPreload ==
    /\ config = DEFAULT_MEMORY_CONFIG
    /\ lru \in PreloadCaches
    /\ disk = WorkspaceFiles
    /\ InitReads
    /\ now = 0
    /\ hung = FALSE
    /\ lastOp = MonOp("new", FALSE, FALSE)
    /\ recency = <<>>
    /\ InitIdle
    /\ InitRest

preloadFrame == <<idxVars, glines, svcVars>>

NextPreload ==
    \/ \E ps \in PreloadLists, pr \in Priorities :
          PreloadFiles(ps, pr) /\ UNCHANGED preloadFrame
    \/ \E i \in 1..Len(manager.loads) : LoadStat(i) /\ UNCHANGED preloadFrame
    \/ \E i \in 1..Len(manager.loads) : LoadRead(i) /\ UNCHANGED preloadFrame
    \/ \E p \in Deletable : DiskDelete(p) /\ UNCHANGED <<monVars, preloadFrame>>

SpecPreload == InitPreload /\ [][NextPreload]_vars

\* C30: preloadFiles never propagates a failure: whatever subset of the
\* paths fails to stat or read, the call returns normally, every candidate
\* is settled and every candidate that is readable has been loaded, and a
\* path enters lazyLoadedFiles only when its getFileContent succeeded.
C30_FailuresSwallowed ==
    [][ LET settled   == lastOp'.op = "load"
            started   == lastOp'.op = "preloadFiles"
            succeeded == IF settled /\ lastOp'.ok THEN {lastOp'.path}
                         ELSE IF started THEN lastOp'.call.loaded ELSE {}
        IN  /\ manager'.lazyLoadedFiles \ manager.lazyLoadedFiles \subseteq succeeded
            /\ (settled /\ ~lastOp'.ok) =>
                  /\ manager'.lazyLoadedFiles = manager.lazyLoadedFiles
                  /\ lru' = lru
            /\ ((settled \/ started) /\ lastOp'.done) =>
                  LET call == lastOp'.call
                      cands == {call.requested[k] : k \in 1..Len(call.requested)}
                  IN  /\ ~call.rejected
                      /\ call.loaded \cup call.failed = cands
                      /\ call.loaded \cap call.failed = {}
                      /\ \A p \in cands :
                            disk'[p].exists =>
                               (p \in call.loaded /\ p \in manager'.lazyLoadedFiles)
      ]_vars

\* preloadFiles(["a", "f"]) has returned: "a" was deleted and failed, "f"
\* was loaded, cached and recorded as warmed
C30_Witness ==
    /\ lastOp.op = "load" /\ lastOp.done
    /\ lastOp.call.requested = <<"a", "f">>
    /\ lastOp.call.failed = {"a"} /\ lastOp.call.loaded = {"f"}
    /\ manager.lazyLoadedFiles = {"f"}
    /\ MapHas(lru.cache, "f")

-----------------------------------------------------------------------------
(* preloadFiles with lists longer than its limits *)

\* the numbered files of a large workspace; "9" and "21" cannot be read
Numbered == [i \in 1..52 |-> ToString(i)]

LargeWorkspace ==
    [p \in {Numbered[i] : i \in 1..52} \cup DOMAIN WorkspaceFiles |->
        IF p \in DOMAIN WorkspaceFiles THEN WorkspaceFiles[p]
        ELSE IF p \in {"9", "21"} THEN NoFile ELSE File(p, 100)]

\* the lists preloadFiles is called with: longer than either limit, between
\* the limits, two batches, with a cached path and with a repeated path
LongLists ==
    {Numbered, SubSeq(Numbered, 1, 22), SubSeq(Numbered, 18, 24),
     <<"a", "3", "9", "3">>}

InitBatch ==
    /\ config = DEFAULT_MEMORY_CONFIG
    /\ lru = Warm(4, <<"a", "b">>)
    /\ disk = LargeWorkspace
    /\ InitReads
    /\ now = 0
    /\ hung = FALSE
    /\ lastOp = MonOp("new", FALSE, FALSE)
    /\ recency = <<>>
    /\ InitIdle
    /\ InitRest

\* the caller awaits one preloadFiles call before it makes the next, and the
\* file system answers the requests in the order they were made
NextBatch ==
    \/ \E ps \in LongLists, pr \in Priorities :
          manager.loads = <<>> /\ PreloadFiles(ps, pr) /\ UNCHANGED preloadFrame
    \/ LoadStat(1) /\ UNCHANGED preloadFrame
    \/ LoadRead(1) /\ UNCHANGED preloadFrame

SpecBatch == InitBatch /\ [][NextBatch]_vars

\* the positions of paths whose path is not warmed, and those of them that
\* have fewer than limit such positions before them
Eligible(paths, warmed) == {j \in 1..Len(paths) : paths[j] \notin warmed}

Taken(paths, warmed, limit) ==
    {j \in Eligible(paths, warmed) :
        Cardinality({i \in Eligible(paths, warmed) : i < j}) < limit}

\* the k-th smallest member of a set of positions
Nth(S, k) == CHOOSE j \in S : Cardinality({i \in S : i < j}) = k - 1

\* C31: a preloadFiles call starts no read for a path of the warmed set and
\* at most 50 reads for priority high, 20 for low; the reads it starts are
\* those of the first 50 (20) listed paths that are not warmed, in list
\* order, less the ones the cache answers.
C31_PreloadCandidates ==
    [][ lastOp'.op = "preloadFiles" /\ manager'.preloads = manager.preloads + 1 =>
          LET paths   == lastOp'.paths
              warmed  == manager.lazyLoadedFiles
              limit   == IF lastOp'.priority = "high" THEN 50 ELSE 20
              started == SubSeq(manager'.loads, Len(manager.loads) + 1,
                                Len(manager'.loads))
              missed  == {j \in Taken(paths, warmed, limit) :
                             paths[j] \notin KeySet(lru.cache)}
          IN  /\ \A k \in 1..Len(started) : started[k].path \notin warmed
              /\ Len(started) <= limit
              /\ Len(started) = Cardinality(missed)
              /\ \A k \in 1..Len(started) :
                    started[k].path = paths[Nth(missed, k)] ]_vars

\* a low-priority call with more than 20 paths has just started 20 reads and
\* has skipped a warmed path among the first 20 of its list
C31_Witness ==
    /\ lastOp.op = "preloadFiles"
    /\ lastOp.priority = "low"
    /\ Len(lastOp.paths) > 20
    /\ lastOp.call.pending = 20
    /\ Len(manager.loads) = 20
    /\ \E j \in 1..20 : lastOp.paths[j] \in manager.lazyLoadedFiles \ lastOp.call.loaded

\* C35: no more than 5 preload reads are in flight at any time.
C35_AtMostFiveInFlight == Len(manager.loads) <= 5

-----------------------------------------------------------------------------
(* MemoryManager.shouldStreamFile *)

\* sizes at, just above and below the thresholds in use
StreamVersions == {File("t1", 1000), File("t2", MB), File("t3", MB + 1),
                   File("t4", 4 * MB), File("t5", 4 * MB + 1)}

\* the comparison with >= in place of >
ShouldStreamAtThreshold(cfg, f) == f.exists /\ f.bytes >= cfg.streamThreshold

\* lines 487-492: `stats.size > this.config.streamThreshold`, and false from
\* the catch block when fs.stat rejects
ShouldStream(cfg, f) == f.exists /\ f.bytes > cfg.streamThreshold

\* a completed shouldStreamFile call: threw tells whether it rejected
SsfOp(path, out) ==
    [op |-> "shouldStreamFile", key |-> path, threw |-> FALSE, out |-> out]

\* shouldStreamFile up to `await fs.stat(filePath)`
SsfCall(s, path) ==
    /\ ~hung
    /\ reads[s].pc = "idle"
    /\ reads' = [reads EXCEPT ![s] = [pc |-> "ssf", path |-> path]]
    /\ lastOp' = Pending("call", path)
    /\ UNCHANGED <<lru, now, hung, recency, config, disk>>

\* fs.stat resolves or rejects: the call returns
SsfStat(s) ==
    /\ ~hung
    /\ reads[s].pc = "ssf"
    /\ reads' = [reads EXCEPT ![s] = Idle]
    /\ lastOp' = SsfOp(reads[s].path, ShouldStream(config, disk[reads[s].path]))
    /\ UNCHANGED <<lru, now, hung, recency, config, disk>>

NextStream ==
    \/ \E s \in Callers, p \in Paths : SsfCall(s, p) /\ UNCHANGED <<idxVars, extVars>>
    \/ \E s \in Callers : SsfStat(s) /\ UNCHANGED <<idxVars, extVars>>
    \/ \E s \in Callers, p \in Paths :
          GfcCall(s, p, FALSE) /\ UNCHANGED <<idxVars, extVars>>
    \/ \E s \in Callers : GfcStat(s) /\ UNCHANGED <<idxVars, extVars>>
    \/ \E s \in Callers : GfcRead(s) /\ UNCHANGED <<idxVars, extVars>>
    \/ \E p \in Paths, f \in StreamVersions : DiskWrite(p, f) /\ UNCHANGED <<idxVars, extVars>>
    \/ \E p \in Paths : DiskDelete(p) /\ UNCHANGED <<idxVars, extVars>>
    \/ \E n \in ConfigUpdates : UpdateConfig(n) /\ UNCHANGED <<idxVars, extVars>>

SpecStream == InitManager /\ [][NextStream]_vars

\* C32: shouldStreamFile returns true exactly when the file can be stat'ed
\* and its size is greater than streamThreshold (false at the threshold and
\* when stat fails), never rejects, and leaves the cache as it was.
C32_ShouldStream ==
    [][ lastOp'.op = "shouldStreamFile" =>
          LET f == disk[lastOp'.key]
          IN  /\ ~lastOp'.threw
              /\ lastOp'.out <=> (f.exists /\ f.bytes > config.streamThreshold)
              /\ f.exists /\ f.bytes = config.streamThreshold => ~lastOp'.out
              /\ ~f.exists => ~lastOp'.out
              /\ lru' = lru ]_vars

\* a call has answered false for a file of exactly the threshold size while
\* the cache holds an entry
C32_Witness ==
    /\ lastOp.op = "shouldStreamFile"
    /\ ~lastOp.out
    /\ disk[lastOp.key].exists
    /\ disk[lastOp.key].bytes = config.streamThreshold
    /\ lru.cache # <<>>

-----------------------------------------------------------------------------
(* failures on the hot path: getFileContent, getFileLines, getFileRange *)

HotVersions == {File("v1", 1000), File("v5", 60 * MB)}
HotTexts    == {<<"a", "n", "a">>}
Ranges      == {[start |-> 900, length |-> 200]}

\* a try/finally whose finally block is turned into a catch-all
AfterFinallyCatchAll(pending, closeFailed) == IF closeFailed THEN "close" ELSE ""

\* `try { ... } finally { await handle.close() }` (lines 403-405, 478-480):
\* the error the block ends with, "" for none; a rejected close replaces the
\* error that was pending
AfterFinally(pending, closeFailed) == IF closeFailed THEN "close" ELSE pending

\* a hot-path call that went through a file handle has settled: first is the
\* first operation that failed ("" for none), closeFailed tells whether
\* handle.close failed, error is what the caller receives ("" for a result)
HandleOp(op, first, closeFailed, error, out) ==
    [op |-> op, first |-> first, closeFailed |-> closeFailed,
     threw |-> error # "", error |-> error, out |-> out]

\* `Buffer.from(buffer.subarray(0, bytesRead))` of the positioned read
RangeOf(f, range) ==
    [text |-> f.text, start |-> range.start,
     bytes |-> IF f.bytes <= range.start THEN 0
               ELSE Min(range.length, f.bytes - range.start)]

\* getFileRange up to `await fs.open(filePath, "r")`
GfrCall(s, path, range) ==
    /\ ~hung
    /\ reads[s].pc = "idle"
    /\ reads' = [reads EXCEPT ![s] = [pc |-> "rangeOpen", path |-> path, range |-> range]]
    /\ lastOp' = Pending("call", path)
    /\ UNCHANGED <<lru, now, hung, recency, config, disk>>

\* fs.open settles (line 473): a rejection leaves getFileRange, outside the try
GfrOpen(s, failed) ==
    /\ ~hung
    /\ reads[s].pc = "rangeOpen"
    /\ IF failed \/ ~disk[reads[s].path].exists
       THEN /\ reads' = [reads EXCEPT ![s] = Idle]
            /\ lastOp' = HandleOp("getFileRange", "open", FALSE, "open", NullContent)
       ELSE /\ reads' = [reads EXCEPT ![s] =
                            [pc |-> "rangeRead", path |-> reads[s].path,
                             range |-> reads[s].range, handle |-> disk[reads[s].path]]]
            /\ lastOp' = Pending("open", reads[s].path)
    /\ UNCHANGED <<lru, now, hung, recency, config, disk>>

\* handle.read settles (lines 475-477): the finally block awaits handle.close
GfrRead(s, failed) ==
    /\ ~hung
    /\ reads[s].pc = "rangeRead"
    /\ reads' = [reads EXCEPT ![s] =
                    [pc |-> "rangeClose", path |-> reads[s].path,
                     pending |-> IF failed THEN "read" ELSE "",
                     out |-> IF failed THEN NullContent
                             ELSE RangeOf(reads[s].handle, reads[s].range)]]
    /\ lastOp' = Pending("read", reads[s].path)
    /\ UNCHANGED <<lru, now, hung, recency, config, disk>>

\* handle.close settles (lines 478-480): getFileRange returns or throws
GfrClose(s, failed) ==
    /\ ~hung
    /\ reads[s].pc = "rangeClose"
    /\ LET error == AfterFinally(reads[s].pending, failed)
       IN  lastOp' = HandleOp("getFileRange", reads[s].pending, failed, error,
                              IF error = "" THEN reads[s].out ELSE NullContent)
    /\ reads' = [reads EXCEPT ![s] = Idle]
    /\ UNCHANGED <<lru, now, hung, recency, config, disk>>

\* getFileLines up to `await fs.open(filePath, "r")`
GflCall(text, startLine, endLine) ==
    /\ glines.pc \in {"idle", "done"}
    /\ glines' = LineCall(text, startLine, endLine)
    /\ lastOp' = NoOp

\* fs.open rejects (line 359): outside the try, nothing to close
GflOpenFails ==
    /\ glines.pc = "call"
    /\ glines' = [pc |-> "done"]
    /\ lastOp' = HandleOp("getFileLines", "open", FALSE, "open", <<>>)

\* handle.read rejects (line 370): the finally block awaits handle.close
GflReadFails ==
    /\ glines.pc = "read"
    /\ glines' = [pc |-> "closing", pending |-> "read"]
    /\ lastOp' = NoOp

\* handle.close settles after a failed read: getFileLines throws
GflCloseAfterError(failed) ==
    /\ glines.pc = "closing"
    /\ glines' = [pc |-> "done"]
    /\ lastOp' = HandleOp("getFileLines", glines.pending, failed,
                          AfterFinally(glines.pending, failed), <<>>)

\* handle.close rejects after the loop: getFileLines throws
GflCloseFails ==
    /\ glines.pc = "close"
    /\ glines' = [pc |-> "done"]
    /\ lastOp' = HandleOp("getFileLines", "", TRUE, AfterFinally("", TRUE), <<>>)

NextHot ==
    \/ \E s \in Callers, p \in Paths, force \in BOOLEAN :
          GfcCall(s, p, force) /\ UNCHANGED <<idxVars, extVars>>
    \/ \E s \in Callers : GfcStat(s) /\ UNCHANGED <<idxVars, extVars>>
    \/ \E s \in Callers : GfcRead(s) /\ UNCHANGED <<idxVars, extVars>>
    \/ \E s \in Callers, p \in Paths, r \in Ranges :
          GfrCall(s, p, r) /\ UNCHANGED <<idxVars, extVars>>
    \/ \E s \in Callers, failed \in BOOLEAN : GfrOpen(s, failed) /\ UNCHANGED <<idxVars, extVars>>
    \/ \E s \in Callers, failed \in BOOLEAN : GfrRead(s, failed) /\ UNCHANGED <<idxVars, extVars>>
    \/ \E s \in Callers, failed \in BOOLEAN : GfrClose(s, failed) /\ UNCHANGED <<idxVars, extVars>>
    \/ \E text \in HotTexts : GflCall(text, 0, 1) /\ UNCHANGED linesFrame
    \/ GflOpen /\ UNCHANGED linesFrame
    \/ GflOpenFails /\ UNCHANGED linesFrame
    \/ GflRead /\ UNCHANGED linesFrame
    \/ GflReadFails /\ UNCHANGED linesFrame
    \/ \E failed \in BOOLEAN : GflCloseAfterError(failed) /\ UNCHANGED linesFrame
    \/ GflClose /\ UNCHANGED linesFrame
    \/ GflCloseFails /\ UNCHANGED linesFrame
    \/ \E p \in Paths, f \in HotVersions : DiskWrite(p, f) /\ UNCHANGED <<idxVars, extVars>>
    \/ \E p \in Paths : DiskDelete(p) /\ UNCHANGED <<idxVars, extVars>>

SpecHot == InitManager /\ [][NextHot]_vars

\* the entries and the currentSize of the cache are what they were
SameEntries == lru'.cache = lru.cache /\ lru'.currentSize = lru.currentSize

\* a step of a getFileContent call whose stat or read fails ends the call
\* with a rejection
GfcFailurePropagates ==
    \A s \in Callers :
        /\ reads[s].pc \in {"stat", "read"}
        /\ ~disk[reads[s].path].exists
        /\ reads'[s] # reads[s]
        => /\ reads'[s].pc = "idle"
           /\ lastOp'.op = "getFileContent"
           /\ ~lastOp'.ok
           /\ lastOp'.key = reads[s].path

\* the steps of hot-path calls change the entries of the cache only when a
\* getFileContent call returns a content; getFileLines and getFileRange
\* leave the cache object as it is
CacheKept ==
    /\ (reads' # reads \/ glines' # glines)
       /\ ~(lastOp'.op = "getFileContent" /\ lastOp'.ok) => SameEntries
    /\ glines' # glines => lru' = lru
    /\ lastOp'.op \in {"getFileLines", "getFileRange"} => lru' = lru
    /\ (\E s \in Callers : reads'[s] # reads[s] /\
           (reads[s].pc \in {"rangeOpen", "rangeRead", "rangeClose"} \/
            reads'[s].pc = "rangeOpen")) => lru' = lru

\* C33 as stated: a failed stat, open or read makes the call fail with that
\* very error, and the entries and currentSize of the cache stay as they were.
C33_FailsWithThatError ==
    [][ /\ GfcFailurePropagates
        /\ CacheKept
        /\ lastOp'.op \in {"getFileLines", "getFileRange"} /\ "first" \in DOMAIN lastOp'
           /\ lastOp'.first \in {"open", "read"}
           => lastOp'.threw /\ lastOp'.error = lastOp'.first ]_vars

\* C33: a failed stat, open or read makes the call fail: with that error,
\* or, when handle.close in the finally block fails as well, with the error
\* of close; a call whose steps all succeed but whose close fails also
\* fails. The entries and currentSize of the cache stay as they were, and
\* getFileLines and getFileRange never change the cache.
C33_FailuresPropagate ==
    [][ /\ GfcFailurePropagates
        /\ CacheKept
        /\ lastOp'.op \in {"getFileLines", "getFileRange"} /\ "first" \in DOMAIN lastOp'
           => /\ lastOp'.threw <=> (lastOp'.first # "" \/ lastOp'.closeFailed)
              /\ lastOp'.first \in {"open", "read"} =>
                    lastOp'.error = IF lastOp'.closeFailed THEN "close"
                                    ELSE lastOp'.first ]_vars

\* getFileRange has just failed with the error of its read while the cache
\* holds an entry
C33_Witness ==
    /\ lastOp.op = "getFileRange"
    /\ lastOp.first = "read"
    /\ lastOp.threw
    /\ lastOp.error = "read"
    /\ lru.cache # <<>>

-----------------------------------------------------------------------------
(* CodeIndexCache: the hit and miss counters *)

\* CodeIndexCache.clearCache (lines 164-168); the calls in flight go on
ClearCache ==
    /\ index' = [InitializeCache(index, now) EXCEPT !.hitCount = 0, !.missCount = 0]
    /\ lastOp' = IdxOp("clearCache", "", FALSE, NoValue, NoEntry, 0)
    /\ window' = NoWindow
    /\ UNCHANGED <<files, calls, rewritten>>

\* history: hist.gets is the number of getCachedDefinitions calls that have
\* returned since the cache was constructed or last cleared
Returned ==
    /\ hist' = IF lastOp'.op = "clearCache" THEN [hist EXCEPT !.gets = 0]
               ELSE IF lastOp'.op = "getCachedDefinitions"
                    THEN [hist EXCEPT !.gets = @ + 1]
                    ELSE hist
    /\ UNCHANGED <<now, nonIdx, monVars, glines, service, reader>>

\* two contents with different hashes
CountedContents == {<<65, 97>>, <<67>>}

NextCounts ==
    \/ Tick /\ UNCHANGED <<mmVars, idxVars, extVars>>
    \/ \E s \in Readers, p \in SourcePaths : GetStart(s, p) /\ Returned
    \/ \E s \in Readers : GetExists(s) /\ Returned
    \/ \E s \in Readers : GetStat(s) /\ Returned
    \/ \E s \in Readers : GetRead(s) /\ Returned
    \/ \E s \in Writers, p \in SourcePaths : CacheStart(s, p) /\ Returned
    \/ \E s \in Writers : CacheStat(s) /\ Returned
    \/ \E s \in Writers : CacheRead(s) /\ Returned
    \/ ClearCache /\ Returned
    \/ \E p \in SourcePaths, c \in CountedContents : SourceWrite(p, c) /\ Returned
    \/ \E p \in SourcePaths : SourceDelete(p) /\ Returned

SpecCounts == InitIndex /\ [][NextCounts]_vars

\* a getCachedDefinitions call of s is suspended on stat or on the read and
\* the file is gone: the awaited operation rejects
CheckFails(s) ==
    /\ calls[s].pc \in {"stat", "read"}
    /\ ~files[calls[s].path].exists

\* C34: a failing stat or read inside getCachedDefinitions makes the call
\* return none and count a miss; every call that returns adds exactly 1 to
\* exactly one of hitCount and missCount; and hitCount + missCount is the
\* number of calls that returned since the last clearCache.
C34_FailureIsMiss ==
    [][ /\ \A s \in Readers :
              CheckFails(s) /\ calls'[s] # calls[s] =>
                 /\ calls'[s].pc = "idle"
                 /\ lastOp'.op = "getCachedDefinitions"
                 /\ ~lastOp'.hit
                 /\ lastOp'.out = NoValue
                 /\ index'.missCount = index.missCount + 1
                 /\ index'.hitCount = index.hitCount
        /\ lastOp'.op = "getCachedDefinitions" =>
              \/ /\ index'.hitCount = index.hitCount + 1
                 /\ index'.missCount = index.missCount
                 /\ lastOp'.hit
              \/ /\ index'.missCount = index.missCount + 1
                 /\ index'.hitCount = index.hitCount
                 /\ ~lastOp'.hit
        /\ lastOp'.op \notin {"getCachedDefinitions", "clearCache"} =>
              /\ index'.hitCount = index.hitCount
              /\ index'.missCount = index.missCount
        /\ index'.hitCount + index'.missCount = hist'.gets ]_vars

\* a call whose stat or read failed has returned none, and the counters
\* show one hit and one miss for the two calls that returned
C34_Witness ==
    /\ lastOp.op = "getCachedDefinitions"
    /\ ~lastOp.hit
    /\ lastOp.cached.present
    /\ ~files[lastOp.key].exists
    /\ index.hitCount = 1
    /\ index.missCount = 1
    /\ hist.gets = 2

-----------------------------------------------------------------------------
(* LRUCache.set for every key and every limit *)

\* keys, the empty string among them, and limits down to zero
AnyKeys   == {"", "a", "b"}
AnyLimits == {[maxCacheSize |-> 1000, maxCacheEntries |-> 2],
              [maxCacheSize |-> 1000, maxCacheEntries |-> 0],
              [maxCacheSize |-> 0, maxCacheEntries |-> 2]}
AnyContents == {Content("x", 100), Content("z", 60), Content("e", 0)}

InitEvict ==
    /\ \E l \in AnyLimits : lru = NewLRUCache(l.maxCacheSize, l.maxCacheEntries)
    /\ now = 0
    /\ hung = FALSE
    /\ lastOp = Op("new", "", NullContent, TRUE, NullContent)
    /\ recency = <<>>
    /\ InitMM
    /\ InitIdle
    /\ InitRest

NextEvict ==
    \/ Tick /\ UNCHANGED <<mmVars, idxVars, extVars>>
    \/ \E k \in AnyKeys : CacheGet(k) /\ UNCHANGED <<mmVars, idxVars, extVars>>
    \/ \E k \in AnyKeys, c \in AnyContents :
          CachePut(k, c) /\ UNCHANGED <<mmVars, idxVars, extVars>>

SpecEvict == InitEvict /\ [][NextEvict]_vars

\* C36: every LRUCache.set returns: its eviction loop never runs an
\* iteration that evicts nothing.
C36_PutTerminates == ~hung

-----------------------------------------------------------------------------
(* CodeIndexingService.initialize under overlapping calls *)

\* what workspaceState holds when the service is constructed
StoredStates ==
    {NoSnapshot,
     Snapshot([NewIndex EXCEPT !.definitions["f.ts"] = EntryFor("f.ts", <<67>>)])}

\* the end of initialize (lines 47-53): startWatching, which returns at once
\* when the watcher is active, and the flag
Initialized(svc) ==
    [svc EXCEPT !.isActive = TRUE, !.watchers = SourceFilePatterns,
                !.isInitialized = TRUE]

\* initialize, or the `if (!this.isInitialized) await this.initialize()` of
\* getCachedDefinitions and cacheDefinitions, up to the await inside
\* loadCache (lines 35-43, 60-62, 71-73)
InitializeStart(s) ==
    /\ calls[s].pc = "idle"
    /\ ~service.isInitialized
    /\ calls' = [calls EXCEPT ![s] = [pc |-> "load", read |-> service.store]]
    /\ service' = [service EXCEPT !.loads = @ + 1]
    /\ lastOp' = NoOp
    /\ window' = NoWindow
    /\ UNCHANGED <<index, files, rewritten>>

\* loadCache's await settles (lines 59-69) and cleanupStaleEntries runs up to
\* its first await; with no key to check initialize runs to its end
InitializeLoaded(s, failed) ==
    /\ calls[s].pc = "load"
    /\ LET loaded == LoadedCache(index, calls[s].read, failed, now)
       IN  \E keys \in KeyOrders(loaded) :
              /\ index' = loaded
              /\ IF keys = <<>>
                 THEN /\ calls' = [calls EXCEPT ![s] = [pc |-> "idle"]]
                      /\ service' = Initialized(service)
                 ELSE /\ calls' = [calls EXCEPT ![s] =
                                      [pc |-> "sweep", filesToCheck |-> keys,
                                       staleFiles |-> <<>>]]
                      /\ UNCHANGED service
              /\ lastOp' = [op |-> "loadCache", read |-> calls[s].read,
                            failed |-> failed, prior |-> index,
                            written |-> rewritten]
    /\ window' = NoWindow
    /\ UNCHANGED <<files, rewritten>>

\* fileExistsAtPath resolves for the next key of initialize's sweep; after
\* the last key the stale entries are deleted and initialize runs to its end
InitializeCheck(s) ==
    /\ calls[s].pc = "sweep"
    /\ LET path  == Head(calls[s].filesToCheck)
           rest  == Tail(calls[s].filesToCheck)
           stale == IF IsStale(files[path]) THEN Append(calls[s].staleFiles, path)
                    ELSE calls[s].staleFiles
       IN  IF rest = <<>>
           THEN /\ index' = DeleteAll(index, stale)
                /\ calls' = [calls EXCEPT ![s] = [pc |-> "idle"]]
                /\ service' = Initialized(service)
           ELSE /\ calls' = [calls EXCEPT ![s] =
                                [pc |-> "sweep", filesToCheck |-> rest,
                                 staleFiles |-> stale]]
                /\ UNCHANGED <<index, service>>
    /\ lastOp' = NoOp
    /\ window' = NoWindow
    /\ UNCHANGED <<files, rewritten>>

initFrame == <<now, nonIdx, monVars, glines, hist, reader>>

InitInit ==
    /\ InitIdle
    /\ InitMM
    /\ lru = NewLRUCache(config.maxCacheSize, config.maxCacheEntries)
    /\ now = 0
    /\ hung = FALSE
    /\ lastOp = NoOp
    /\ recency = <<>>
    /\ InitPressure
    /\ glines = NoLines
    /\ hist = NoHist
    /\ reader = NoReader
    /\ \E stored \in StoredStates : service = [NewService EXCEPT !.store = stored]

\* the calls reach the cache once initialize has returned to them: every
\* caller goes through the service
NextInit ==
    \/ \E s \in IndexCallers : InitializeStart(s) /\ UNCHANGED initFrame
    \/ \E s \in IndexCallers, failed \in BOOLEAN :
          InitializeLoaded(s, failed) /\ UNCHANGED initFrame
    \/ \E s \in IndexCallers : InitializeCheck(s) /\ UNCHANGED initFrame
    \/ \E s \in Readers, p \in SourcePaths :
          service.isInitialized /\ GetStart(s, p) /\ UNCHANGED <<now, nonIdx, extVars>>
    \/ \E s \in Readers : GetExists(s) /\ UNCHANGED <<now, nonIdx, extVars>>
    \/ \E s \in Readers : GetStat(s) /\ UNCHANGED <<now, nonIdx, extVars>>
    \/ \E s \in Readers : GetRead(s) /\ UNCHANGED <<now, nonIdx, extVars>>
    \/ \E s \in Writers, p \in SourcePaths :
          service.isInitialized /\ CacheStart(s, p) /\ UNCHANGED <<now, nonIdx, extVars>>
    \/ \E s \in Writers : CacheStat(s) /\ UNCHANGED <<now, nonIdx, extVars>>
    \/ \E s \in Writers : CacheRead(s) /\ UNCHANGED <<now, nonIdx, extVars>>
    \/ \E p \in SourcePaths, c \in CountedContents :
          SourceWrite(p, c) /\ UNCHANGED <<now, nonIdx, extVars>>
    \/ \E p \in SourcePaths : SourceDelete(p) /\ UNCHANGED <<now, nonIdx, extVars>>

SpecInit == InitInit /\ [][NextInit]_vars

\* C37: loadCache is executed at most once per service instance.
C37_LoadCacheOnce == service.loads <= 1

\* no loadCache of a second initialize replaces a cache that holds an entry
\* written by a completed cacheDefinitions with a cache that lacks it
C37_NoEntryDiscarded ==
    lastOp.op = "loadCache" /\ "prior" \in DOMAIN lastOp =>
       \A p \in SourcePaths :
          lastOp.written[p] = "cached" /\ lastOp.prior.definitions[p].present
             => index.definitions[p] = lastOp.prior.definitions[p]

-----------------------------------------------------------------------------
(* getCachedDefinitions against a concurrent cacheDefinitions *)

\* C38: when a getCachedDefinitions call returns and the entry under its
\* path is no longer the one the call looked at but one that a
\* cacheDefinitions installed meanwhile, and that entry agrees with the file
\* in mtime and hash, the call leaves it in the cache.
C38_RemovesOnlyValidated ==
    [][ \A s \in Readers :
          calls[s].pc \in {"exists", "stat", "read"} /\ calls'[s].pc = "idle" =>
             LET p   == calls[s].path
                 cur == index.definitions[p]
                 f   == files[p]
             IN  /\ cur.present
                 /\ cur # calls[s].cached
                 /\ f.exists
                 /\ MtimeMatches(f, cur)
                 /\ HashMatches(f.content, cur)
                 => index'.definitions[p] = cur ]_vars

-----------------------------------------------------------------------------
(* MemoryIntegrationService: fs.readFile replaced by the caching proxy *)

\* MemoryIntegrationService.enable has run: the manager is initialized and
\* fs.readFile of "fs/promises", the function MemoryManager calls as well, is
\* optimizedReadFile; the file "a" exists
InitHook ==
    /\ config = DEFAULT_MEMORY_CONFIG
    /\ lru = NewLRUCache(config.maxCacheSize, config.maxCacheEntries)
    /\ disk = [p \in Keys |-> IF p \in Paths THEN File("v1", 1000) ELSE NoFile]
    /\ InitReads
    /\ now = 0
    /\ hung = FALSE
    /\ lastOp = Pending("new", "")
    /\ recency = <<>>
    /\ InitIdle
    /\ LET r == StartMonitoring(ConstructedMonitor(DEFAULT_MEMORY_CONFIG), {})
       IN  monitor = r.monitor /\ timers = r.timers
    /\ manager = NewManager
    /\ running = {}
    /\ glines = NoLines
    /\ InitQuiet

\* a completed fs.readFile call of a client
ReadOp(path, ok, out) == [op |-> "readFile", key |-> path, ok |-> ok, out |-> out]

\* optimizedReadFile with a text encoding (part_004 lines 70-80) up to the
\* first await of the getFileContent it calls: the cache lookup; stack holds
\* the getFileContent calls that are suspended at their own
\* `await fs.readFile(filePath, "utf8")` further out
EnterProxy(c, path, stack, t) ==
    LET r == LRUGet(c, path, t)
    IN  [lru  |-> r.lru,
         call |-> IF r.hit
                  THEN [pc |-> "ret", path |-> path, stack |-> stack, value |-> r.out]
                  ELSE [pc |-> "stat", path |-> path, stack |-> stack]]

\* a client calls fs.readFile(path, "utf8")
ProxyCall(s, path) ==
    /\ ~hung
    /\ reads[s].pc = "idle"
    /\ lru.totalRequests < MaxRequests
    /\ LET e == EnterProxy(lru, path, <<>>, now)
       IN  lru' = e.lru /\ reads' = [reads EXCEPT ![s] = e.call]
    /\ lastOp' = Pending("call", path)
    /\ UNCHANGED <<now, hung, recency, config, disk>>

\* fs.stat of the innermost getFileContent settles (MemoryManager lines
\* 277-288): a rejection is caught by the proxy, which awaits
\* originalReadFile; a file above the ceiling is read through a handle; any
\* other file is read with fs.readFile, which is the proxy
ProxyStat(s) ==
    /\ ~hung
    /\ reads[s].pc = "stat"
    /\ LET call == reads[s]
           f    == disk[call.path]
       IN  IF ~f.exists
           THEN /\ reads' = [reads EXCEPT ![s] =
                                [pc |-> "orig", path |-> call.path, stack |-> call.stack]]
                /\ UNCHANGED lru
           ELSE IF Route(config, f.bytes) = "window"
                THEN /\ reads' = [reads EXCEPT ![s] =
                                     [pc |-> "window", path |-> call.path,
                                      stack |-> call.stack, fileSize |-> f.bytes]]
                     /\ UNCHANGED lru
                ELSE /\ lru.totalRequests < MaxRequests
                     /\ LET e == EnterProxy(lru, call.path,
                                    Append(call.stack, [fileSize |-> f.bytes]), now)
                        IN  lru' = e.lru /\ reads' = [reads EXCEPT ![s] = e.call]
    /\ lastOp' = Pending("stat", reads[s].path)
    /\ UNCHANGED <<now, hung, recency, config, disk>>

\* the handle read of streamFileContent settles (lines 305-319)
ProxyWindow(s) ==
    /\ ~hung
    /\ reads[s].pc = "window"
    /\ LET call == reads[s]
           f    == disk[call.path]
       IN  IF ~f.exists
           THEN /\ reads' = [reads EXCEPT ![s] =
                                [pc |-> "orig", path |-> call.path, stack |-> call.stack]]
                /\ UNCHANGED <<lru, hung>>
           ELSE LET content == ReadContent("window", f, call.fileSize)
                IN  /\ reads' = [reads EXCEPT ![s] =
                                    [pc |-> "ret", path |-> call.path,
                                     stack |-> call.stack, value |-> content]]
                    /\ IF ShouldCache(config, call.fileSize)
                       THEN LET r == LRUSet(lru, call.path, content, now)
                            IN  lru' = r.lru /\ hung' = r.hung
                       ELSE UNCHANGED <<lru, hung>>
    /\ lastOp' = Pending("window", reads[s].path)
    /\ UNCHANGED <<now, recency, config, disk>>

\* originalReadFile settles (part_004 lines 81-84): its content is the
\* proxy's result; its rejection leaves the proxy, rejects the fs.readFile of
\* the getFileContent one level out, and that level's proxy falls back in turn
ProxyFallback(s) ==
    /\ ~hung
    /\ reads[s].pc = "orig"
    /\ LET call == reads[s]
           f    == disk[call.path]
       IN  IF f.exists
           THEN /\ reads' = [reads EXCEPT ![s] =
                                [pc |-> "ret", path |-> call.path, stack |-> call.stack,
                                 value |-> Content(f.text, f.bytes)]]
                /\ lastOp' = Pending("fallback", call.path)
           ELSE IF call.stack = <<>>
                THEN /\ reads' = [reads EXCEPT ![s] = Idle]
                     /\ lastOp' = ReadOp(call.path, FALSE, NullContent)
                ELSE /\ reads' = [reads EXCEPT ![s] =
                                     [pc |-> "orig", path |-> call.path,
                                      stack |-> SubSeq(call.stack, 1, Len(call.stack) - 1)]]
                     /\ lastOp' = Pending("fallback", call.path)
    /\ UNCHANGED <<lru, now, hung, recency, config, disk>>

\* a proxy returns its content: to the client, or to the getFileContent one
\* level out, which caches it if the size it saw allows (lines 291-295) and
\* returns it to its own proxy
ProxyReturn(s) ==
    /\ ~hung
    /\ reads[s].pc = "ret"
    /\ LET call == reads[s]
       IN  IF call.stack = <<>>
           THEN /\ reads' = [reads EXCEPT ![s] = Idle]
                /\ lastOp' = ReadOp(call.path, TRUE, call.value)
                /\ UNCHANGED <<lru, hung>>
           ELSE /\ reads' = [reads EXCEPT ![s] =
                                [call EXCEPT !.stack = SubSeq(@, 1, Len(@) - 1)]]
                /\ lastOp' = Pending("return", call.path)
                /\ IF ShouldCache(config, call.stack[Len(call.stack)].fileSize)
                   THEN LET r == LRUSet(lru, call.path, call.value, now)
                        IN  lru' = r.lru /\ hung' = r.hung
                   ELSE UNCHANGED <<lru, hung>>
    /\ UNCHANGED <<now, recency, config, disk>>

\* the continuations of the read call of s
ProxyStep(s) ==
    (ProxyStat(s) \/ ProxyWindow(s) \/ ProxyFallback(s) \/ ProxyReturn(s))
       /\ UNCHANGED <<idxVars, extVars>>

NextHook ==
    \/ \E s \in Callers, p \in Paths : ProxyCall(s, p) /\ UNCHANGED <<idxVars, extVars>>
    \/ \E s \in Callers : ProxyStat(s) /\ UNCHANGED <<idxVars, extVars>>
    \/ \E s \in Callers : ProxyWindow(s) /\ UNCHANGED <<idxVars, extVars>>
    \/ \E s \in Callers : ProxyFallback(s) /\ UNCHANGED <<idxVars, extVars>>
    \/ \E s \in Callers : ProxyReturn(s) /\ UNCHANGED <<idxVars, extVars>>
    \/ \E p \in Paths, f \in FileVersions : DiskWrite(p, f) /\ UNCHANGED <<idxVars, extVars>>
    \/ \E p \in Paths : DiskDelete(p) /\ UNCHANGED <<idxVars, extVars>>

\* every settled promise has its continuation run
SpecHook ==
    /\ InitHook
    /\ [][NextHook]_vars
    /\ \A s \in Callers : WF_vars(ProxyStep(s))

\* C39: with the proxy in place, a read that a client has started completes.
C39_ReadCompletes ==
    \A s \in Callers : (reads[s].pc # "idle") ~> (reads[s].pc = "idle")

\* the proxy's call into getFileContent never comes back to the proxy
C39_NoReentry ==
    \A s \in Callers : reads[s].pc # "idle" => reads[s].stack = <<>>


-----------------------------------------------------------------------------
(* MemoryOptimizedFileReader.readFiles and its Semaphore *)

ReadLists    == {<<"a", "b", "c", "d">>, <<"a", "b", "a">>, <<"b">>}
Concurrency  == {0, 1, 2}       \* options.maxConcurrency
BatchSizes   == {2, 3}          \* options.batchSize
TaskIds      == UNION {1..Len(p) : p \in ReadLists}   \* positions in filePaths

\* new Semaphore(count)
NewSemaphore(count) == [count |-> count, waiting |-> <<>>]

\* Semaphore.acquire by task k: a free permit is taken at once, otherwise the
\* task's resolver is pushed on the waiting list
Acquire(sem, k) ==
    IF sem.count > 0
    THEN [sem |-> [sem EXCEPT !.count = @ - 1], granted |-> TRUE]
    ELSE [sem |-> [sem EXCEPT !.waiting = Append(@, k)], granted |-> FALSE]

\* Semaphore.release: the permit comes back, and the first waiter, when there
\* is one, takes it again and is resumed; next is 0 when nobody waited
Release(sem) ==
    IF sem.waiting = <<>>
    THEN [sem |-> [sem EXCEPT !.count = @ + 1], next |-> 0]
    ELSE [sem |-> [sem EXCEPT !.waiting = Tail(@)], next |-> Head(sem.waiting)]

\* batch.map(async ...): every task of the batch runs up to its acquire, in
\* list order, before anything else happens
RECURSIVE AcquireAll(_, _, _, _)
AcquireAll(sem, tasks, k, last) ==
    IF k > last
    THEN [sem |-> sem, tasks |-> tasks]
    ELSE LET a == Acquire(sem, k)
         IN  IF a.granted
             THEN AcquireAll(a.sem, [tasks EXCEPT ![k] = "reading"], k + 1, last)
             ELSE AcquireAll(a.sem, [tasks EXCEPT ![k] = "waiting"], k + 1, last)

\* the batch that starts at position i of filePaths
BatchEnd(rd, i) == Min(i + rd.batchSize - 1, Len(rd.paths))

StartBatch(rd, i) ==
    LET r == AcquireAll(rd.sem, [k \in 1..Len(rd.paths) |-> rd.tasks[k]],
                        i, BatchEnd(rd, i))
    IN  [rd EXCEPT !.i = i, !.sem = r.sem, !.tasks = r.tasks]

Holders(rd) == {k \in DOMAIN rd.tasks : rd.tasks[k] = "reading"}
Waiters(rd) == {k \in DOMAIN rd.tasks : rd.tasks[k] = "waiting"}
InBatch(rd) == rd.i .. BatchEnd(rd, rd.i)

\* readFiles is called: the semaphore is made and the first batch started
ReadFiles(paths, batchSize, maxConcurrency) ==
    /\ reader.pc = "idle"
    /\ reader' = StartBatch([pc |-> "running", paths |-> paths,
                             batchSize |-> batchSize, max |-> maxConcurrency,
                             i |-> 1, sem |-> NewSemaphore(maxConcurrency),
                             tasks |-> [k \in 1..Len(paths) |-> "new"],
                             results |-> [p \in {} |-> ""]], 1)
    /\ UNCHANGED <<lruVars, mmVars, idxVars, monVars, glines, service, hist>>

\* this.readFile of task k settles: the content, or "" after a failure, is
\* stored, and the finally block releases the permit
ReadSettles(k, failed) ==
    /\ reader.pc = "running"
    /\ k \in Holders(reader)
    /\ LET r == Release(reader.sem)
           content == IF failed THEN "" ELSE "content"
           path == reader.paths[k]
       IN  reader' = [reader EXCEPT
               !.sem = r.sem,
               !.results = [p \in DOMAIN @ \cup {path} |->
                               IF p = path THEN content ELSE @[p]],
               !.tasks = [j \in DOMAIN @ |->
                               IF j = k THEN "done"
                               ELSE IF j = r.next THEN "reading" ELSE @[j]]]
    /\ UNCHANGED <<lruVars, mmVars, idxVars, monVars, glines, service, hist>>

\* Promise.all(batchPromises) resolves: the next batch starts, or readFiles
\* returns the results
BatchDone ==
    /\ reader.pc = "running"
    /\ \A k \in InBatch(reader) : reader.tasks[k] = "done"
    /\ LET i == reader.i + reader.batchSize
       IN  IF i <= Len(reader.paths)
           THEN reader' = StartBatch(reader, i)
           ELSE reader' = NoReader
    /\ UNCHANGED <<lruVars, mmVars, idxVars, monVars, glines, service, hist>>

InitReader == InitManager

NextReader ==
    \/ \E paths \in ReadLists, b \in BatchSizes, m \in Concurrency :
           ReadFiles(paths, b, m)
    \/ \E k \in TaskIds, failed \in BOOLEAN : ReadSettles(k, failed)
    \/ BatchDone

\* every read that was started settles, and Promise.all resolves once every
\* task of the batch is done
SpecReader ==
    /\ InitReader
    /\ [][NextReader]_vars
    /\ \A k \in TaskIds : WF_vars(\E failed \in BOOLEAN : ReadSettles(k, failed))
    /\ WF_vars(BatchDone)

Running == reader.pc = "running"

\* C40: every acquire made during readFiles is eventually granted, every
\* holder releasing in the end: a task that waits for a permit comes to read.
C40_AcquireGranted ==
    \A k \in TaskIds :
        (Running /\ k \in Waiters(reader)) ~> (Running /\ k \in Holders(reader))

\* the three safety parts of C40: never more holders than maxConcurrency, the
\* free count never negative, the permits all accounted for
C40_HoldersBounded ==
    Running =>
        /\ Cardinality(Holders(reader)) <= reader.max
        /\ reader.sem.count >= 0
        /\ reader.sem.count + Cardinality(Holders(reader)) = reader.max

\* a release with waiters resumes the longest-waiting task and no other: the
\* waiters form the waiting list, in list order
C40_HandsToLongestWaiting ==
    [][\A k \in TaskIds :
        (Running /\ Running' /\ k \in Holders(reader) /\ reader'.tasks[k] = "done"
            /\ reader.sem.waiting # <<>>)
        => /\ Holders(reader') = (Holders(reader) \ {k}) \cup {Head(reader.sem.waiting)}
           /\ reader'.sem.waiting = Tail(reader.sem.waiting)]_vars

\* a readFiles call with maxConcurrency 0 has made its acquires
C40_NoPermit ==
    Running /\ reader.max = 0 /\ Waiters(reader) # {}

=============================================================================
